---- MODULE Spec2Model ----
(***************************************************************************)
(* Email threading and reply correlation of the CRM:                       *)
(*   - the send-email edge function (outbound send path, provider lookup,  *)
(*     dispatch, Message-ID reconciliation),                               *)
(*   - the process-email-replies edge function (reply ingestion job),      *)
(*   - the thread assembly of the EntityEmailHistory view,                 *)
(*   - the track-email-click edge function (click tracking redirect).      *)
(* Each part has its own specification over the shared tables.             *)
(***************************************************************************)
EXTENDS Integers, Sequences, FiniteSets, TLC

(***************************************************************************)
(* Bounds of the model.                                                    *)
(***************************************************************************)
MaxThreadEmails == 2
MaxTs == 3
MaxEmails == 3
MaxAttachments == 1

(***************************************************************************)
(* Null values. Row ids are positive integers, 0 is the SQL NULL of an     *)
(* id-typed column; "null" is the NULL of a text column.                   *)
(***************************************************************************)
NoId == 0
NULL == "null"

VARIABLES
  \* --- database tables and the sender's mailbox
  email_history,          \* table email_history: sequence of rows, row i has id i
  pending_bounce_checks,  \* table pending_bounce_checks: set of email_history ids
  sentItems,              \* the sender's Sent Items folder at the mail provider
  \* --- send-email handler invocations
  pc,          \* position of each invocation
  req,         \* the request body of each invocation
  loc,         \* the local variables of each invocation
  resp,        \* the response of each invocation
  calls,       \* provider calls made by each invocation (identity + mail)
  \* --- EntityEmailHistory view
  emails,        \* useState<EmailHistoryItem[]>
  repliesMap,    \* useState<Record<string, EmailReply[]>>
  threads,       \* the memoised thread list
  rendered,      \* whether the memo has been computed for emails/repliesMap
  view,          \* the view's query in flight and the realtime events in flight
  \* --- process-email-replies job
  email_replies,   \* table email_replies: sequence of rows
  notifications,   \* table notifications: sequence of rows
  inbox,           \* the Inbox folder of each sender at the mail provider
  job,             \* the local state of each run of the job
  \* --- track-email-click handler
  contacts,        \* table contacts: row i has id i
  click            \* the local state of the invocation of the handler

dbVars == <<email_history, pending_bounce_checks, sentItems>>
sendVars == <<pc, req, loc, resp, calls>>
threadVars == <<emails, repliesMap, threads, rendered, view>>
ingestVars == <<email_replies, notifications, inbox, job>>
clickVars == <<contacts, click>>

vars == <<email_history, pending_bounce_checks, sentItems, pc, req, loc, resp, calls,
          emails, repliesMap, threads, rendered, view,
          email_replies, notifications, inbox, job, contacts, click>>

(***************************************************************************)
(* Array.prototype.sort with a numeric comparator (a, b) => key(a)-key(b): *)
(* a stable sort. StableOrder gives the order of the indices of keys.      *)
(***************************************************************************)
InsertIdx(order, i, keys) ==
  LET p == Cardinality({q \in 1..Len(order) : keys[order[q]] <= keys[i]})
  IN SubSeq(order, 1, p) \o <<i>> \o SubSeq(order, p + 1, Len(order))

RECURSIVE StableOrderUpTo(_, _)
StableOrderUpTo(keys, n) ==
  IF n = 0 THEN <<>> ELSE InsertIdx(StableOrderUpTo(keys, n - 1), n, keys)

StableOrder(keys) == StableOrderUpTo(keys, Len(keys))

Permuted(s, order) == [i \in 1..Len(s) |-> s[order[i]]]

(***************************************************************************)
(* Thread assembly: EntityEmailHistory.threads (useMemo).                  *)
(***************************************************************************)
ThreadKeyOwnId(email) == email.id

\* const threadId = email.thread_id || email.id
ThreadKey(email) == IF email.thread_id # NoId THEN email.thread_id ELSE email.id

\* the keys of threadMap in insertion order (first occurrence in emails)
RECURSIVE ThreadKeysInOrder(_)
ThreadKeysInOrder(es) ==
  IF es = <<>> THEN <<>>
  ELSE LET front == ThreadKeysInOrder(SubSeq(es, 1, Len(es) - 1))
           k == ThreadKey(es[Len(es)])
       IN IF \E i \in 1..Len(front) : front[i] = k THEN front ELSE Append(front, k)

ThreadGroup(es, k) == SelectSeq(es, LAMBDA e : ThreadKey(e) = k)

\* threadEmails.sort((a, b) => new Date(a.sent_at) - new Date(b.sent_at))
SortThreadEmails(es) ==
  Permuted(es, StableOrder([i \in 1..Len(es) |-> es[i].sent_at]))

SentMessage(email) ==
  [id |-> email.id, type |-> "sent", timestamp |-> email.sent_at,
   status |-> email.status, bounce_type |-> email.bounce_type]

ReceivedMessage(reply) ==
  [id |-> reply.id, type |-> "received", timestamp |-> reply.received_at,
   status |-> NULL, bounce_type |-> NULL]

\* const emailReplies = repliesMap[email.id] || []
RepliesOf(map, id) == IF id \in DOMAIN map THEN map[id] ELSE <<>>

\* threadEmails.forEach: the sent email, then each of its replies
RECURSIVE CollectMessages(_, _)
CollectMessages(es, map) ==
  IF es = <<>> THEN <<>>
  ELSE LET email == es[1]
           rs == RepliesOf(map, email.id)
       IN <<SentMessage(email)>>
          \o [i \in 1..Len(rs) |-> ReceivedMessage(rs[i])]
          \o CollectMessages(Tail(es), map)

SortMessagesUnsorted(msgs) == msgs

\* messages.sort((a, b) => new Date(a.timestamp) - new Date(b.timestamp))
SortMessages(msgs) ==
  Permuted(msgs, StableOrder([i \in 1..Len(msgs) |-> msgs[i].timestamp]))

LatestStatusRepliedFirst(hasBounce, hasReplies, threadEmails) ==
  IF hasReplies THEN "replied"
  ELSE IF hasBounce THEN "bounced"
  ELSE IF \E i \in 1..Len(threadEmails) : threadEmails[i].status = "opened" THEN "opened"
  ELSE IF \E i \in 1..Len(threadEmails) : threadEmails[i].status = "delivered" THEN "delivered"
  ELSE "sent"

\* let latestStatus = 'sent'; if (hasBounce) ... else if (hasReplies) ...
LatestStatus(hasBounce, hasReplies, threadEmails) ==
  IF hasBounce THEN "bounced"
  ELSE IF hasReplies THEN "replied"
  ELSE IF \E i \in 1..Len(threadEmails) : threadEmails[i].status = "opened" THEN "opened"
  ELSE IF \E i \in 1..Len(threadEmails) : threadEmails[i].status = "delivered" THEN "delivered"
  ELSE "sent"

BuildThread(es, map, k) ==
  LET threadEmails == SortThreadEmails(ThreadGroup(es, k))
      firstEmail == threadEmails[1]
      messages == SortMessages(CollectMessages(threadEmails, map))
      hasReplies ==
        \/ \E i \in 1..Len(messages) : messages[i].type = "received"
        \/ \E i \in 1..Len(threadEmails) :
             threadEmails[i].reply_count > 0
      hasBounce == \E i \in 1..Len(threadEmails) : threadEmails[i].bounce_type # NULL
  IN [threadId |-> k,
      messages |-> messages,
      lastActivity |-> IF Len(messages) > 0 THEN messages[Len(messages)].timestamp
                       ELSE firstEmail.sent_at,
      totalMessages |-> Len(messages),
      hasReplies |-> hasReplies,
      hasBounce |-> hasBounce,
      latestStatus |-> LatestStatus(hasBounce, hasReplies, threadEmails)]

\* result.sort((a, b) => new Date(b.lastActivity) - new Date(a.lastActivity))
SortThreads(result) ==
  Permuted(result, StableOrder([i \in 1..Len(result) |-> 0 - result[i].lastActivity]))

ThreadsOf(es, map) ==
  LET keys == ThreadKeysInOrder(es)
  IN SortThreads([i \in 1..Len(keys) |-> BuildThread(es, map, keys[i])])

(***************************************************************************)
(* send-email: strings. A string is a sequence of one-character strings.   *)
(***************************************************************************)
RECURSIVE TrimStart(_)
TrimStart(s) == IF s # <<>> /\ s[1] = " " THEN TrimStart(Tail(s)) ELSE s

RECURSIVE TrimEnd(_)
TrimEnd(s) ==
  IF s # <<>> /\ s[Len(s)] = " " THEN TrimEnd(SubSeq(s, 1, Len(s) - 1)) ELSE s

\* String.prototype.trim
Trim(s) == TrimEnd(TrimStart(s))

EmailRegexTestAcceptsAll(s) == TRUE

\* /^[^\s@]+@[^\s@]+\.[^\s@]+$/.test(s)
EmailRegexTest(s) ==
  /\ \A i \in 1..Len(s) : s[i] # " "
  /\ Cardinality({i \in 1..Len(s) : s[i] = "@"}) = 1
  /\ \E a, d \in 1..Len(s) :
       /\ s[a] = "@"
       /\ s[d] = "."
       /\ a >= 2
       /\ d >= a + 2
       /\ d <= Len(s) - 1

LowerChar(c) ==
  CASE c = "R" -> "r"
    [] c = "E" -> "e"
    [] c = "H" -> "h"
    [] OTHER -> c

\* String.prototype.toLowerCase
ToLower(s) == [i \in 1..Len(s) |-> LowerChar(s[i])]

\* String.prototype.startsWith
StartsWith(s, prefix) ==
  Len(s) >= Len(prefix) /\ SubSeq(s, 1, Len(prefix)) = prefix

\* String.prototype.includes
Includes(s, sub) ==
  \E i \in 0..(Len(s) - Len(sub)) : SubSeq(s, i + 1, i + Len(sub)) = sub

\* String.prototype.substring(0, n)
Prefix(s, n) == SubSeq(s, 1, IF Len(s) < n THEN Len(s) ELSE n)

RePrefix == <<"R", "e", ":", " ">>

\* isReply ? (subject.toLowerCase().startsWith("re:") ? subject : `Re: ${subject}`) : subject
EffectiveSubject(isReply, subject) ==
  IF isReply
  THEN IF StartsWith(ToLower(subject), <<"r", "e", ":">>) THEN subject
       ELSE RePrefix \o subject
  ELSE subject

(***************************************************************************)
(* send-email: requests.                                                   *)
(***************************************************************************)
Handlers == {1, 2}

NoMsg == 0      \* a null message_id / conversation_id
NoGraphId == "none"   \* let graphMessageId: string | null = null
BogusId == 9    \* a well-formed id that no email_history row has

ValidTo == <<"a", "@", "b", ".", "c">>
PaddedTo == <<" ", "a", "@", "b", ".", "c", " ">>

\* recipient addresses that are not of the form local@domain.tld
MalformedAddresses ==
  { <<" ">>,                                \* blank
    <<"a", " ", "@", "b", ".", "c">>,       \* inner space
    <<"a", "@", "b">>,                      \* no dot in the domain
    <<"a", "@", "@", "b", ".", "c">>,       \* two @
    <<"@", "b", ".", "c">>,                 \* no local part
    <<"a", "@", "b", ".">> }                \* nothing after the dot

\* the recipient addresses callers send; <<>> is a missing recipient
Addresses == {ValidTo, PaddedTo, <<>>} \cup MalformedAddresses

Subjects == { <<"h", "i">>, <<"R", "e", ":", " ", "h", "i">> }

Sender == "me@crm"

RowIds == 1..Len(email_history)

\* the hints a caller can know about the parent it names
ParentMessageIds(parent) ==
  {NoMsg} \cup (IF parent \in RowIds THEN {email_history[parent].message_id} ELSE {})

ParentConversationIds(parent) ==
  {NoMsg} \cup (IF parent \in RowIds THEN {email_history[parent].conversation_id} ELSE {})

\* interface EmailRequest, as far as the handler reads it: requests that
\* exercise the validation of the required fields ...
ValidationRequests ==
  [to : Addresses,
   subject : {<<>>, <<"h", "i">>},
   from : {"", Sender},
   attachments : {0},
   isReply : {FALSE},
   parentEmailId : {NoId},
   threadId : {NoId},
   parentMessageId : {NoMsg},
   parentConversationId : {NoMsg}]

\* ... and well-formed requests with every combination of the threading fields
ThreadingRequests ==
  UNION { [to : {ValidTo},
           subject : IF parent = NoId THEN Subjects ELSE {<<"h", "i">>},
           from : {Sender},
           attachments : 0..MaxAttachments,
           isReply : BOOLEAN,
           parentEmailId : {parent},
           threadId : {NoId, BogusId} \cup RowIds,
           parentMessageId : ParentMessageIds(parent),
           parentConversationId : ParentConversationIds(parent)]
          : parent \in {NoId, BogusId} \cup RowIds }

Requests == ValidationRequests \cup ThreadingRequests

NoRequest ==
  [to |-> <<>>, subject |-> <<>>, from |-> "", attachments |-> 0, isReply |-> FALSE,
   parentEmailId |-> NoId, threadId |-> NoId, parentMessageId |-> NoMsg,
   parentConversationId |-> NoMsg]

NoLocals ==
  [resolvedThreadId |-> NoId, resolvedParentMessageId |-> NoMsg,
   resolvedParentConversationId |-> NoMsg, emailId |-> NoId, finalThreadId |-> NoId,
   graphMessageId |-> NoGraphId, attempts |-> <<>>, via |-> "none", attachmentsSent |-> 0,
   replyTo |-> NoGraphId, replyError |-> "none", sendMailTried |-> FALSE,
   retries |-> 0, messageId |-> NoMsg, conversationId |-> NoMsg]

NoResponse == [status |-> 0, error |-> "none", emailId |-> NoId, threadId |-> NoId]

ErrorResponse(code, what) ==
  [status |-> code, error |-> what, emailId |-> NoId, threadId |-> NoId]

InitSendIdle ==
  /\ pc = [h \in Handlers |-> "idle"]
  /\ req = [h \in Handlers |-> NoRequest]
  /\ loc = [h \in Handlers |-> NoLocals]
  /\ resp = [h \in Handlers |-> NoResponse]
  /\ calls = [h \in Handlers |-> 0]

InitDbEmpty ==
  /\ email_history = <<>>
  /\ pending_bounce_checks = {}
  /\ sentItems = <<>>

\* the view with no query and no realtime event in flight
NoView == [fetch |-> "idle", data |-> <<>>, events |-> <<>>]

InitViewEmpty ==
  /\ emails = <<>>
  /\ repliesMap = <<>>
  /\ threads = <<>>
  /\ rendered = FALSE
  /\ view = NoView

Jobs == {1, 2}

NoRow == [id |-> NoId]

NoExamined == [sender |-> "", id |-> <<>>]

NoSnapshot == [replies |-> <<>>, counts |-> <<>>]

\* the local state of a run: its position, the rows selected, the senders in
\* grouping order, the sender and reply being processed, the response; and a
\* log of the run (the reply examined last, the replies skipped as already
\* recorded, the operations that failed, the tables as the run left them,
\* the (message, reply) pairs it inserted, whether it started while another
\* run was under way)
NoJob ==
  [pc |-> "idle", sentEmails |-> <<>>, senders |-> <<>>, s |-> 0, replies |-> <<>>,
   r |-> 0, originalEmail |-> NoRow, status |-> 0, repliesFound |-> 0,
   processedReplies |-> <<>>,
   examined |-> NoExamined, alreadyRecorded |-> 0, failed |-> {}, after |-> NoSnapshot,
   inserted |-> {}, overlap |-> FALSE]

InitJobsIdle == job = [j \in Jobs |-> NoJob]

\* the track-email-click handler before a request: its position, the raw
\* query values, the values the handler derives from them, the row it
\* fetched, its response and the tracking operations that failed
NoClick ==
  [pc |-> "idle", id |-> NoId, url |-> <<>>, targetUrl |-> <<>>, decodedUrl |-> <<>>,
   emailData |-> NoRow, isFirstClick |-> FALSE, contact |-> NoRow,
   status |-> 0, location |-> <<>>, failed |-> {}]

ClickHandlers == {1, 2}

InitClickIdle ==
  /\ contacts = <<>>
  /\ click = [c \in ClickHandlers |-> NoClick]

InitIngestIdle ==
  /\ email_replies = <<>>
  /\ notifications = <<>>
  /\ inbox = <<>>
  /\ InitJobsIdle

(***************************************************************************)
(* send-email: the handler, one action per await.                          *)
(***************************************************************************)
\* if (!to || !subject || !from)
MissingFields(r) == r.to = <<>> \/ r.subject = <<>> \/ r.from = ""

\* a request arrives at an invocation of the handler: required fields and
\* the recipient syntax are checked before the first await
Receive(h, r) ==
  /\ pc[h] = "idle"
  /\ r \in Requests
  /\ Len(email_history) < MaxEmails
  /\ req' = [req EXCEPT ![h] = r]
  /\ loc' = [loc EXCEPT ![h] = NoLocals]
  /\ calls' = [calls EXCEPT ![h] = 0]
  /\ IF MissingFields(r)
     THEN /\ resp' = [resp EXCEPT ![h] = ErrorResponse(400, "missing")]
          /\ pc' = [pc EXCEPT ![h] = "done"]
     ELSE IF ~EmailRegexTest(Trim(r.to))
     THEN /\ resp' = [resp EXCEPT ![h] = ErrorResponse(400, "invalid")]
          /\ pc' = [pc EXCEPT ![h] = "done"]
     ELSE /\ resp' = [resp EXCEPT ![h] = NoResponse]
          /\ pc' = [pc EXCEPT ![h] = "resolve"]
  /\ UNCHANGED <<dbVars, threadVars, ingestVars, clickVars>>

\* let resolvedThreadId = threadId || parentEmailId || null
InitialThreadId(r) ==
  IF r.threadId # NoId THEN r.threadId
  ELSE IF r.parentEmailId # NoId THEN r.parentEmailId
  ELSE NoId

ParentRowRead(r) ==
  /\ r.parentEmailId # NoId
  /\ (r.parentMessageId = NoMsg \/ r.parentConversationId = NoMsg)
  /\ r.parentEmailId \in RowIds

\* if (parentEmail.thread_id && !resolvedThreadId) resolvedThreadId = parentEmail.thread_id
ResolvedThreadId(r) ==
  IF /\ ParentRowRead(r)
     /\ email_history[r.parentEmailId].thread_id # NoId
     /\ InitialThreadId(r) = NoId
  THEN email_history[r.parentEmailId].thread_id
  ELSE InitialThreadId(r)

ResolvedParentMessageId(r) ==
  IF ParentRowRead(r) /\ r.parentMessageId = NoMsg
  THEN email_history[r.parentEmailId].message_id
  ELSE r.parentMessageId

ResolvedParentConversationId(r) ==
  IF ParentRowRead(r) /\ r.parentConversationId = NoMsg
  THEN email_history[r.parentEmailId].conversation_id
  ELSE r.parentConversationId

\* the parent row is read and the threading hints are resolved
Resolve(h) ==
  /\ pc[h] = "resolve"
  /\ loc' = [loc EXCEPT ![h].resolvedThreadId = ResolvedThreadId(req[h]),
                        ![h].resolvedParentMessageId = ResolvedParentMessageId(req[h]),
                        ![h].resolvedParentConversationId =
                           ResolvedParentConversationId(req[h])]
  /\ pc' = [pc EXCEPT ![h] = "insert"]
  /\ UNCHANGED <<dbVars, req, resp, calls, threadVars, ingestVars, clickVars>>

\* is_reply: isReply || false
IsReplyFlag(r) == r.isReply

EmailHistoryDataPending(r, id) ==
  [id |-> id, recipient_email |-> r.to, sender_email |-> r.from, subject |-> r.subject,
   status |-> "pending", parent_email_id |-> r.parentEmailId, is_reply |-> r.isReply,
   thread_id |-> NoId, message_id |-> NoMsg, conversation_id |-> NoMsg, reply_count |-> 0]

\* const emailHistoryData = {...}
EmailHistoryData(r, id) ==
  [id |-> id,
   recipient_email |-> r.to,
   sender_email |-> r.from,
   subject |-> r.subject,
   status |-> "sent",
   parent_email_id |-> r.parentEmailId,
   is_reply |-> IsReplyFlag(r),
   thread_id |-> NoId,
   message_id |-> NoMsg,
   conversation_id |-> NoMsg,
   reply_count |-> 0]

\* parent_email_id UUID REFERENCES email_history(id)
ForeignKeyHolds(r) == r.parentEmailId = NoId \/ r.parentEmailId \in RowIds

\* supabase.from("email_history").insert(emailHistoryData).select().single()
InsertRecord(h) ==
  /\ pc[h] = "insert"
  /\ \E stored \in {b \in BOOLEAN : b => ForeignKeyHolds(req[h])} :
     IF stored
     THEN /\ email_history' =
               Append(email_history, EmailHistoryData(req[h], Len(email_history) + 1))
          /\ loc' = [loc EXCEPT ![h].emailId = Len(email_history) + 1]
          /\ pc' = [pc EXCEPT ![h] = "setThread"]
          /\ resp' = resp
     ELSE /\ resp' = [resp EXCEPT ![h] = ErrorResponse(500, "insert")]
          /\ pc' = [pc EXCEPT ![h] = "done"]
          /\ UNCHANGED <<email_history, loc>>
  /\ UNCHANGED <<pending_bounce_checks, sentItems, req, calls, threadVars, ingestVars, clickVars>>

FinalThreadIdResolvedOnly(resolved, emailId) == resolved

\* const finalThreadId = resolvedThreadId || emailRecord.id
FinalThreadId(resolved, emailId) == IF resolved # NoId THEN resolved ELSE emailId

\* supabase.from("email_history").update({ thread_id: finalThreadId }).eq("id", emailRecord.id)
\* (the handler does not read the result of this update: it is taken to succeed)
SetThread(h) ==
  /\ pc[h] = "setThread"
  /\ LET final == FinalThreadId(loc[h].resolvedThreadId, loc[h].emailId)
     IN /\ loc' = [loc EXCEPT ![h].finalThreadId = final]
        /\ email_history' = [email_history EXCEPT ![loc[h].emailId].thread_id = final]
  /\ pc' = [pc EXCEPT ![h] = "token"]
  /\ UNCHANGED <<pending_bounce_checks, sentItems, req, resp, calls, threadVars, ingestVars, clickVars>>

\* getAccessToken(): one request to the identity provider, unless the
\* credentials are not configured (it then throws before any request)
GetToken(h) ==
  /\ pc[h] = "token"
  /\ \E o \in {"ok", "rejected", "unconfigured"} :
       /\ calls' = [calls EXCEPT ![h] = IF o = "unconfigured" THEN @ ELSE @ + 1]
       /\ IF o = "ok"
          THEN /\ pc' = [pc EXCEPT ![h] = "lookup"]
               /\ resp' = resp
          ELSE /\ pc' = [pc EXCEPT ![h] = "done"]
               /\ resp' = [resp EXCEPT ![h] = ErrorResponse(500, "token")]
  /\ UNCHANGED <<dbVars, req, loc, threadVars, ingestVars, clickVars>>

(***************************************************************************)
(* send-email: provider message lookup for a reply.                        *)
(***************************************************************************)
SearchOutcomes == {"hit", "miss", "throw"}

\* one call of searchMessages, as the run remembers it
Attempt(search, outcome) == [search |-> search, outcome |-> outcome]

SearchPairBoth(before, first, second, oFirst, oSecond) ==
  [attempts |-> before \o <<Attempt(first, oFirst), Attempt(second, oSecond)>>,
   found |-> IF oSecond = "hit" THEN second
             ELSE IF oFirst = "hit" THEN first ELSE NoGraphId,
   thrown |-> oFirst = "throw" \/ oSecond = "throw"]

\* two searches of one strategy: all messages, then Sent Items if not found.
\* searchMessages returns the id of the first message listed on a hit and
\* null on an empty or non-2xx answer; a rejected fetch throws out of the
\* whole try block.  The id a search returns is named after the search.
SearchPair(before, first, second, oFirst, oSecond) ==
  IF oFirst = "hit"
  THEN [attempts |-> before \o <<Attempt(first, oFirst)>>, found |-> first,
        thrown |-> FALSE]
  ELSE IF oFirst = "throw"
  THEN [attempts |-> before \o <<Attempt(first, oFirst)>>, found |-> NoGraphId,
        thrown |-> TRUE]
  ELSE [attempts |-> before \o <<Attempt(first, oFirst), Attempt(second, oSecond)>>,
        found |-> IF oSecond = "hit" THEN second ELSE NoGraphId,
        thrown |-> oSecond = "throw"]

\* Strategy 1 by internetMessageId, Strategy 2 by conversationId
LookupRun(hasMessageId, hasConversationId, o) ==
  LET none == [attempts |-> <<>>, found |-> NoGraphId, thrown |-> FALSE]
      byId == IF hasMessageId
              THEN SearchPair(<<>>, "imid-all", "imid-sent", o[1], o[2])
              ELSE none
  IN IF byId.found = NoGraphId /\ ~byId.thrown /\ hasConversationId
     THEN SearchPair(byId.attempts, "conv-all", "conv-sent", o[3], o[4])
     ELSE byId

\* if (isReply && (resolvedParentMessageId || resolvedParentConversationId))
LookupWanted(h) ==
  /\ req[h].isReply
  /\ (loc[h].resolvedParentMessageId # NoMsg \/ loc[h].resolvedParentConversationId # NoMsg)

Lookup(h) ==
  /\ pc[h] = "lookup"
  /\ IF LookupWanted(h)
     THEN \E run \in { LookupRun(loc[h].resolvedParentMessageId # NoMsg,
                                   loc[h].resolvedParentConversationId # NoMsg, o)
                         : o \in [1..4 -> SearchOutcomes] } :
               /\ loc' = [loc EXCEPT ![h].attempts = run.attempts,
                                     ![h].graphMessageId = run.found]
               /\ calls' = [calls EXCEPT ![h] = @ + Len(run.attempts)]
     ELSE UNCHANGED <<loc, calls>>
  /\ pc' = [pc EXCEPT ![h] = "dispatch"]
  /\ UNCHANGED <<dbVars, req, resp, threadVars, ingestVars, clickVars>>

(***************************************************************************)
(* send-email: dispatch.                                                   *)
(***************************************************************************)
\* the answers of the mail provider to a POST: 2xx, 403, another status, another
\* status whose error body contains "403", "AccessDenied" or "Forbidden",
\* or a rejected fetch
PostOutcomes == {"ok", "403", "500", "500denied", "throw"}

DispatchOutcomes ==
  [reply : PostOutcomes, patch : PostOutcomes, send : PostOutcomes,
   attach : [1..MaxAttachments -> {"ok", "fail", "throw"}], sendMail : {"ok", "fail"}]

\* errorMsg.includes("403") || errorMsg.includes("AccessDenied") || errorMsg.includes("Forbidden")
IsAccessDenied(outcome) == outcome \in {"403", "500denied"}

\* sendReplyWithAttachments: createReply, PATCH the draft, POST each
\* attachment (a non-2xx answer is only logged, a rejected fetch throws),
\* send the draft
SendReplyWithAttachments(n, o) ==
  IF o.reply # "ok" THEN [error |-> o.reply, calls |-> 1, attachmentsSent |-> 0]
  ELSE IF o.patch # "ok" THEN [error |-> o.patch, calls |-> 2, attachmentsSent |-> 0]
  ELSE IF \E i \in 1..n : o.attach[i] = "throw"
  THEN [error |-> "throw",
        calls |-> 2 + (CHOOSE i \in 1..n :
                         o.attach[i] = "throw" /\ \A j \in 1..(i - 1) : o.attach[j] # "throw"),
        attachmentsSent |-> 0]
  ELSE IF o.send # "ok" THEN [error |-> o.send, calls |-> 3 + n, attachmentsSent |-> 0]
  ELSE [error |-> "none", calls |-> 3 + n,
        attachmentsSent |-> Cardinality({i \in 1..n : o.attach[i] = "ok"})]

\* sendReplyEmail: the draft sequence with attachments, else POST .../reply
SendReplyEmail(n, o) ==
  IF n > 0 THEN SendReplyWithAttachments(n, o)
  ELSE [error |-> IF o.reply = "ok" THEN "none" ELSE o.reply, calls |-> 1,
        attachmentsSent |-> 0]

\* sendNewEmail: POST .../sendMail with the attachments in the payload
SendNewEmail(n, o, callsBefore) ==
  [ok |-> o.sendMail = "ok", via |-> "sendMail", calls |-> callsBefore + 1,
   attachmentsSent |-> IF o.sendMail = "ok" THEN n ELSE 0]

\* the reply-in-place is not tried, sendNewEmail is
Direct(n, o) ==
  [replyTo |-> NoGraphId, replyError |-> "none", sendMailTried |-> TRUE]
    @@ SendNewEmail(n, o, 0)

DispatchRunReplyAlways(r, graphMessageId, o) ==
  IF r.isReply
  THEN [ok |-> TRUE, via |-> "reply", calls |-> 1, attachmentsSent |-> 0,
        replyTo |-> graphMessageId, replyError |-> "none", sendMailTried |-> FALSE]
  ELSE Direct(r.attachments, o)

\* if (isReply && graphMessageId) { try sendReplyEmail catch -> sendNewEmail
\* on access denied, else rethrow } else sendNewEmail
DispatchRun(r, graphMessageId, o) ==
  IF r.isReply /\ graphMessageId # NoGraphId
  THEN LET reply == SendReplyEmail(r.attachments, o)
           tried == [replyTo |-> graphMessageId, replyError |-> reply.error,
                     sendMailTried |-> IsAccessDenied(reply.error)]
       IN IF reply.error = "none"
          THEN tried @@
               [ok |-> TRUE, via |-> IF r.attachments > 0 THEN "draft" ELSE "reply",
                calls |-> reply.calls, attachmentsSent |-> reply.attachmentsSent]
          ELSE IF IsAccessDenied(reply.error)
          THEN tried @@ SendNewEmail(r.attachments, o, reply.calls)
          ELSE tried @@
               [ok |-> FALSE, via |-> "none", calls |-> reply.calls, attachmentsSent |-> 0]
  ELSE Direct(r.attachments, o)

\* a message accepted by the provider, to appear in Sent Items
SentItem(r) ==
  [to |-> Trim(r.to), subject |-> EffectiveSubject(r.isReply, r.subject),
   state |-> "pending"]

Dispatch(h) ==
  /\ pc[h] = "dispatch"
  /\ \E run \in { DispatchRun(req[h], loc[h].graphMessageId, o) : o \in DispatchOutcomes } :
          /\ calls' = [calls EXCEPT ![h] = @ + run.calls]
          /\ loc' = [loc EXCEPT ![h].via = IF run.ok THEN run.via ELSE "none",
                                ![h].attachmentsSent = run.attachmentsSent,
                                ![h].replyTo = run.replyTo,
                                ![h].replyError = run.replyError,
                                ![h].sendMailTried = run.sendMailTried]
          /\ IF run.ok
             THEN /\ sentItems' = Append(sentItems, SentItem(req[h]))
                  /\ pc' = [pc EXCEPT ![h] = "poll"]
                  /\ resp' = resp
             ELSE /\ resp' = [resp EXCEPT ![h] = ErrorResponse(500, "dispatch")]
                  /\ pc' = [pc EXCEPT ![h] = "done"]
                  /\ UNCHANGED sentItems
  /\ UNCHANGED <<email_history, pending_bounce_checks, req, threadVars, ingestVars, clickVars>>

(***************************************************************************)
(* send-email: Message-ID reconciliation.                                  *)
(***************************************************************************)
MaxRetries == 4
SubjectPrefixLen == 15
SentItemsTop == 10

\* s.replace(/\{\{[^}]+\}\}/g, '')
RECURSIVE StripTemplates(_)
StripTemplates(s) ==
  IF s = <<>> THEN <<>>
  ELSE IF /\ Len(s) >= 5
          /\ s[1] = "{" /\ s[2] = "{" /\ s[3] # "}"
          /\ \E j \in 4..(Len(s) - 1) :
               /\ s[j] = "}" /\ s[j + 1] = "}"
               /\ \A q \in 3..(j - 1) : s[q] # "}"
  THEN LET j == CHOOSE j \in 4..(Len(s) - 1) :
                  /\ s[j] = "}" /\ s[j + 1] = "}"
                  /\ \A q \in 3..(j - 1) : s[q] # "}"
       IN StripTemplates(SubSeq(s, j + 2, Len(s)))
  ELSE <<s[1]>> \o StripTemplates(Tail(s))

\* s.replace(/\s+/g, ' ')
RECURSIVE CollapseSpaces(_)
CollapseSpaces(s) ==
  IF Len(s) < 2 THEN s
  ELSE IF s[1] = " " /\ s[2] = " " THEN CollapseSpaces(Tail(s))
  ELSE <<s[1]>> \o CollapseSpaces(Tail(s))

\* const normalizeSubject = (s) => s.replace(...).replace(...).trim().toLowerCase()
NormalizeSubject(s) == ToLower(Trim(CollapseSpaces(StripTemplates(s))))

\* const subjectSimilar = ...
SubjectSimilar(subject, msgSubject) ==
  LET n == NormalizeSubject(subject)
      m == NormalizeSubject(msgSubject)
  IN \/ Prefix(n, SubjectPrefixLen) = Prefix(m, SubjectPrefixLen)
     \/ Includes(n, Prefix(m, SubjectPrefixLen))
     \/ Includes(m, Prefix(n, SubjectPrefixLen))
     \/ msgSubject = subject

\* Sent Items, $top=10&$orderby=sentDateTime desc: item indices, newest first
ListedItems ==
  LET listed == SelectSeq([i \in 1..Len(sentItems) |-> Len(sentItems) + 1 - i],
                          LAMBDA i : sentItems[i].state # "pending")
  IN SubSeq(listed, 1, IF Len(listed) < SentItemsTop THEN Len(listed) ELSE SentItemsTop)

\* messages.filter(msg => Date.now() - sentDateTime < 90000)
RecentMessages == SelectSeq(ListedItems, LAMBDA i : sentItems[i].state = "fresh")

\* the first element of seq satisfying Test, or NoMsg
FirstWhere(seq, Test(_)) ==
  IF \E q \in 1..Len(seq) : Test(seq[q])
  THEN seq[CHOOSE q \in 1..Len(seq) : Test(seq[q]) /\ \A p \in 1..(q - 1) : ~Test(seq[p])]
  ELSE NoMsg

\* r.emailAddress.address.toLowerCase() === cleanedTo.toLowerCase()
RecipientMatch(i, r) == ToLower(sentItems[i].to) = ToLower(Trim(r.to))

\* the internetMessageId captured from one listing of the recent messages
Capture(recent, r) ==
  IF Len(recent) = 1 THEN recent[1]
  ELSE LET byRecipient ==
             FirstWhere(recent,
               LAMBDA i : /\ RecipientMatch(i, r)
                          /\ (SubjectSimilar(r.subject, sentItems[i].subject)
                              \/ Len(recent) <= 2))
       IN IF byRecipient # NoMsg THEN byRecipient
          ELSE FirstWhere(recent, LAMBDA i : sentItems[i].subject = r.subject)

PollAgainOnceMore(messageId, retries) == messageId = NoMsg /\ retries <= MaxRetries

\* while (!messageId && retries < maxRetries)
PollAgain(messageId, retries) == messageId = NoMsg /\ retries < MaxRetries

\* one iteration of while (!messageId && retries < maxRetries): the listing
\* of Sent Items is answered, or it fails (a non-2xx answer and a rejected
\* fetch both leave messageId unset)
Poll(h) ==
  /\ pc[h] = "poll"
  /\ \E listed \in BOOLEAN :
       LET captured == IF listed THEN Capture(RecentMessages, req[h]) ELSE NoMsg
           retries == loc[h].retries + 1
       IN /\ loc' = [loc EXCEPT ![h].retries = retries,
                                ![h].messageId = captured,
                                ![h].conversationId = captured]
          /\ pc' = [pc EXCEPT ![h] = IF PollAgain(captured, retries)
                                     THEN "poll" ELSE "finalUpdate"]
  /\ calls' = [calls EXCEPT ![h] = @ + 1]
  /\ UNCHANGED <<dbVars, req, resp, threadVars, ingestVars, clickVars>>

\* supabase.from("email_history").update({ status: "sent", message_id, conversation_id })
\* (the handler does not read the result of this update: it is taken to succeed)
FinalUpdate(h) ==
  /\ pc[h] = "finalUpdate"
  /\ email_history' = [email_history EXCEPT
                         ![loc[h].emailId].status = "sent",
                         ![loc[h].emailId].message_id = loc[h].messageId,
                         ![loc[h].emailId].conversation_id = loc[h].conversationId]
  /\ pc' = [pc EXCEPT ![h] = "queue"]
  /\ UNCHANGED <<pending_bounce_checks, sentItems, req, loc, resp, calls, threadVars, ingestVars, clickVars>>

SuccessResponseWithoutIds(emailId, threadId) ==
  [status |-> 200, error |-> "none", emailId |-> NoId, threadId |-> NoId]

\* JSON.stringify({ success: true, ..., emailId: emailRecord.id, threadId: finalThreadId })
SuccessResponse(emailId, threadId) ==
  [status |-> 200, error |-> "none", emailId |-> emailId, threadId |-> threadId]

\* the bounce check is queued (a failed insert is only logged) and the
\* success response is returned
QueueBounceCheck(h) ==
  /\ pc[h] = "queue"
  /\ \E queued \in BOOLEAN :
       pending_bounce_checks' =
         IF queued THEN pending_bounce_checks \cup {loc[h].emailId}
         ELSE pending_bounce_checks
  /\ resp' = [resp EXCEPT ![h] = SuccessResponse(loc[h].emailId, loc[h].finalThreadId)]
  /\ pc' = [pc EXCEPT ![h] = "done"]
  /\ UNCHANGED <<email_history, sentItems, req, loc, calls, threadVars, ingestVars, clickVars>>

(***************************************************************************)
(* The mail provider: a sent message appears in Sent Items some time after *)
(* it was accepted, and leaves the 90 second recency window later.  Only   *)
(* the reconciliation loop reads Sent Items, so the changes are observed   *)
(* while a handler is in that loop.                                        *)
(***************************************************************************)
ItemListed(i) ==
  /\ i \in 1..Len(sentItems)
  /\ sentItems[i].state = "pending"
  /\ \E h \in Handlers : pc[h] = "poll"
  /\ sentItems' = [sentItems EXCEPT ![i].state = "fresh"]
  /\ UNCHANGED <<email_history, pending_bounce_checks, sendVars, threadVars, ingestVars, clickVars>>

ItemAges(i) ==
  /\ i \in 1..Len(sentItems)
  /\ sentItems[i].state = "fresh"
  /\ \A j \in 1..(i - 1) : sentItems[j].state # "fresh"
  /\ \E h \in Handlers : pc[h] = "poll"
  /\ sentItems' = [sentItems EXCEPT ![i].state = "old"]
  /\ UNCHANGED <<email_history, pending_bounce_checks, sendVars, threadVars, ingestVars, clickVars>>

SendStep(h) ==
  \/ \E r \in Requests : Receive(h, r)
  \/ Resolve(h)
  \/ InsertRecord(h)
  \/ SetThread(h)
  \/ GetToken(h)
  \/ Lookup(h)
  \/ Dispatch(h)
  \/ Poll(h)
  \/ FinalUpdate(h)
  \/ QueueBounceCheck(h)

(***************************************************************************)
(* The store an invocation finds: a conversation of up to MaxEmails - 1    *)
(* messages that earlier invocations have sent, a new message followed by  *)
(* replies composed as the reply dialog composes them (parentEmailId the   *)
(* previous message, threadId its thread_id).                              *)
(***************************************************************************)
EarlierRequest(k) ==
  [to |-> ValidTo, subject |-> <<"h", "i">>, from |-> Sender, attachments |-> 0,
   isReply |-> k > 1,
   parentEmailId |-> IF k > 1 THEN k - 1 ELSE NoId,
   threadId |-> IF k > 1 THEN 1 ELSE NoId,
   parentMessageId |-> NoMsg, parentConversationId |-> NoMsg]

\* the row of the k-th earlier message after its invocation has returned
EarlierRow(k, captured) ==
  [EmailHistoryData(EarlierRequest(k), k) EXCEPT
     !.thread_id = FinalThreadId(InitialThreadId(EarlierRequest(k)), k),
     !.message_id = IF captured THEN k ELSE NoMsg,
     !.conversation_id = IF captured THEN k ELSE NoMsg]

EarlierItem(k, state) == [SentItem(EarlierRequest(k)) EXCEPT !.state = state]

InitSend ==
  /\ \E n \in 0..(MaxEmails - 1) : \E fresh \in 0..n : \E captured \in BOOLEAN :
       /\ (n = 0 => captured)
       /\ email_history = [k \in 1..n |-> EarlierRow(k, k < n \/ captured)]
       /\ sentItems = [k \in 1..n |->
                         EarlierItem(k, IF k > n - fresh THEN "fresh" ELSE "old")]
       /\ pending_bounce_checks = 1..n
  /\ InitSendIdle
  /\ InitViewEmpty
  /\ InitIngestIdle
  /\ InitClickIdle

\* one invocation of the handler at a time
NextSend ==
  \/ SendStep(1)
  \/ \E i \in 1..MaxEmails : ItemListed(i)
  \/ \E i \in 1..MaxEmails : ItemAges(i)

SpecSend == InitSend /\ [][NextSend]_vars

\* the requests of the reply dialog and the compose dialog: no attachments,
\* the parent named by its row id only
DialogRequests ==
  {r \in ThreadingRequests :
     /\ r.attachments = 0
     /\ r.threadId = NoId
     /\ r.parentEmailId # BogusId
     /\ r.parentMessageId = NoMsg /\ r.parentConversationId = NoMsg}

DialogStep(h) ==
  \/ \E r \in DialogRequests : Receive(h, r)
  \/ Resolve(h)
  \/ InsertRecord(h)
  \/ SetThread(h)
  \/ GetToken(h)
  \/ Lookup(h)
  \/ Dispatch(h)
  \/ Poll(h)
  \/ FinalUpdate(h)
  \/ QueueBounceCheck(h)

NextSendFair ==
  \/ DialogStep(1)
  \/ \E i \in 1..MaxEmails : ItemListed(i)
  \/ \E i \in 1..MaxEmails : ItemAges(i)

\* every await of the handler returns: an invocation that can take a step
\* takes it
SpecSendFair == InitSend /\ [][NextSendFair]_vars /\ WF_vars(DialogStep(1))

\* two invocations of the handler at once, on an empty store, numbered in the
\* order of their arrival: each await of one may be followed by steps of the
\* other
InitTwoSends ==
  /\ InitDbEmpty
  /\ InitSendIdle
  /\ InitViewEmpty
  /\ InitIngestIdle
  /\ InitClickIdle

NextTwoSends ==
  \/ DialogStep(1)
  \/ pc[1] # "idle" /\ DialogStep(2)
  \/ \E i \in 1..MaxEmails : ItemListed(i)
  \/ \E i \in 1..MaxEmails : ItemAges(i)

SpecTwoSends == InitTwoSends /\ [][NextTwoSends]_vars

\* the open tracking endpoint (track-email-open?id=...), requested when the
\* recipient's mail program loads the pixel of a dispatched message: the
\* Message record becomes opened, with its opened timestamp. Modelled for
\* the first open only.
TrackOpen(id) ==
  /\ id \in RowIds
  /\ \E h \in Handlers :
       loc[h].emailId = id /\ pc[h] \in {"poll", "finalUpdate", "queue", "done"}
  /\ email_history[id].status = "sent"
  /\ "opened_at" \notin DOMAIN email_history[id]
  /\ email_history' =
       [email_history EXCEPT ![id] = [@ EXCEPT !.status = "opened"] @@ [opened_at |-> 1]]
  /\ UNCHANGED <<pending_bounce_checks, sentItems, sendVars, threadVars, ingestVars,
                 clickVars>>

\* an invocation of the handler, and the recipient opening what it sent
NextSendOpen ==
  \/ DialogStep(1)
  \/ \E i \in 1..MaxEmails : ItemListed(i)
  \/ \E i \in 1..MaxEmails : ItemAges(i)
  \/ \E id \in 1..MaxEmails : TrackOpen(id)

SpecSendOpen == InitSend /\ [][NextSendOpen]_vars

(***************************************************************************)
(* Claims about the send handler, checked under SpecSend.                  *)
(***************************************************************************)
\* the handler has created its row and written the row's thread_id
ThreadWritten(h) == loc[h].emailId # NoId /\ pc[h] # "setThread"

OwnRow(h) == email_history[loc[h].emailId]

Succeeded(h) == pc[h] = "done" /\ resp[h].status = 200

\* C1: a request whose recipient is malformed is answered 400 by the step
\* that receives it, and the invocation has made no call to the identity
\* provider or the mail provider; an "invalid recipient" answer is never
\* given after a provider call.
C1_InvalidRecipientNoProviderCall ==
  \A h \in Handlers :
    /\ (pc[h] # "idle" /\ req[h].to \in MalformedAddresses)
         => (pc[h] = "done" /\ resp[h].status = 400 /\ calls[h] = 0)
    /\ resp[h] = ErrorResponse(400, "invalid") => calls[h] = 0

C1_Witness ==
  \E h \in Handlers :
    /\ pc[h] = "done"
    /\ req[h].to \in MalformedAddresses
    /\ req[h].subject # <<>> /\ req[h].from # ""
    /\ resp[h] = ErrorResponse(400, "invalid")
    /\ calls[h] = 0

\* C6: a reply B sent with parentEmailId = A.id and no threadId gets
\* thread_id = A.id when A is a root message and thread_id = A.thread_id
\* when A is itself a reply.
C6_ReplyInheritsRootThread ==
  \A h \in Handlers :
    (/\ ThreadWritten(h)
     /\ req[h].isReply
     /\ req[h].threadId = NoId
     /\ req[h].parentEmailId \in RowIds)
    => LET A == email_history[req[h].parentEmailId]
       IN OwnRow(h).thread_id = IF A.is_reply THEN A.thread_id ELSE A.id

\* a reply to a reply has succeeded and carries the parent's id, not the
\* parent's thread_id
C6_Witness ==
  \E h \in Handlers :
    /\ Succeeded(h)
    /\ req[h].isReply
    /\ req[h].threadId = NoId
    /\ req[h].parentEmailId \in RowIds
    /\ LET A == email_history[req[h].parentEmailId]
       IN /\ A.is_reply
          /\ A.thread_id # A.id
          /\ OwnRow(h).thread_id = A.id

IsRootRequest(r) == ~r.isReply /\ r.threadId = NoId /\ r.parentEmailId = NoId

C8_ReplyAttachmentsAllOrError ==
  \A h \in Handlers :
    (Succeeded(h) /\ req[h].isReply /\ req[h].attachments > 0)
    => loc[h].attachmentsSent = req[h].attachments

\* a reply sent through the draft sequence has succeeded with an attachment
\* missing
C8_Witness ==
  \E h \in Handlers :
    /\ Succeeded(h)
    /\ req[h].isReply
    /\ req[h].attachments > 0
    /\ loc[h].via = "draft"
    /\ loc[h].attachmentsSent < req[h].attachments

\* C9: every row with is_reply = true has a non-null parent_email_id.
C9_ReplyHasParent ==
  \A i \in RowIds : email_history[i].is_reply => email_history[i].parent_email_id # NoId

C9_Witness ==
  \E h \in Handlers :
    /\ Succeeded(h)
    /\ OwnRow(h).is_reply
    /\ OwnRow(h).parent_email_id = NoId

IsRootRow(row) == ~row.is_reply /\ row.parent_email_id = NoId

\* C10: the thread_id the handler has written to its row is the id of an
\* existing root message.
C10_ThreadIdNamesRoot ==
  \A h \in Handlers :
    ThreadWritten(h)
    => /\ OwnRow(h).thread_id \in RowIds
       /\ IsRootRow(email_history[OwnRow(h).thread_id])

\* a request has succeeded whose row carries a thread_id that no row has
C10_Witness ==
  \E h \in Handlers :
    /\ Succeeded(h)
    /\ OwnRow(h).thread_id \notin RowIds

SearchRank(search) ==
  CASE search = "imid-all" -> 1
    [] search = "imid-sent" -> 2
    [] search = "conv-all" -> 3
    [] search = "conv-sent" -> 4

\* the searches a lookup has to make before it may give up
SearchesDue(h) ==
  (IF loc[h].resolvedParentMessageId # NoMsg THEN {"imid-all", "imid-sent"} ELSE {})
    \cup (IF loc[h].resolvedParentConversationId # NoMsg THEN {"conv-all", "conv-sent"}
          ELSE {})

\* C12: the searches of a lookup are made in the order message id in all
\* folders, message id in Sent Items, conversation id in all folders,
\* conversation id in Sent Items; every search before the last one returned
\* nothing; a lookup in which every search returned nothing has made every
\* search it has an id for; and the id the last search returned is the
\* message the reply is dispatched against.
C12_LookupOrder ==
  \A h \in Handlers :
    LET a == loc[h].attempts
        n == Len(a)
    IN /\ \A i, j \in 1..n : i < j => SearchRank(a[i].search) < SearchRank(a[j].search)
       /\ \A i \in 1..(n - 1) : a[i].outcome = "miss"
       /\ loc[h].graphMessageId =
            IF n > 0 /\ a[n].outcome = "hit" THEN a[n].search ELSE NoGraphId
       /\ (n > 0 /\ a[n].outcome = "miss") => {a[i].search : i \in 1..n} = SearchesDue(h)
       /\ loc[h].replyTo \in {NoGraphId, loc[h].graphMessageId}
       /\ (loc[h].graphMessageId # NoGraphId /\ pc[h] \notin {"lookup", "dispatch"})
            => loc[h].replyTo = loc[h].graphMessageId

\* the fourth search was the first to find a message, and the reply was sent
\* against it
C12_Witness ==
  \E h \in Handlers :
    /\ Succeeded(h)
    /\ Len(loc[h].attempts) = 4
    /\ loc[h].attempts[4] = Attempt("conv-sent", "hit")
    /\ loc[h].replyTo = "conv-sent"
    /\ loc[h].via = "reply"

\* the lookup of a reply request was made and found nothing
LookupFoundNothing(h) ==
  /\ req[h].isReply
  /\ loc[h].attempts # <<>>
  /\ loc[h].graphMessageId = NoGraphId

\* C13: a reply request whose lookup found nothing (every search returned
\* nothing, or a search threw) goes on to dispatch; it is dispatched by
\* sendMail only, with no reply-in-place attempt; the only error it can end
\* with is a failed sendMail.
C13_LookupMissNotAnError ==
  \A h \in Handlers :
    LookupFoundNothing(h)
    => /\ pc[h] \in {"dispatch", "poll", "finalUpdate", "queue", "done"}
       /\ pc[h] # "dispatch"
            => /\ loc[h].sendMailTried
               /\ loc[h].replyTo = NoGraphId
               /\ loc[h].replyError = "none"
               /\ loc[h].via \in {"none", "sendMail"}
       /\ pc[h] \in {"poll", "finalUpdate", "queue"} => loc[h].via = "sendMail"
       /\ pc[h] = "done" => \/ Succeeded(h) /\ loc[h].via = "sendMail"
                            \/ resp[h] = ErrorResponse(500, "dispatch") /\ loc[h].via = "none"

\* a reply whose lookup ended in a throwing search after a search that
\* returned nothing has been sent as a new message, with success
C13_Witness ==
  \E h \in Handlers :
    /\ LookupFoundNothing(h)
    /\ Len(loc[h].attempts) >= 2
    /\ loc[h].attempts[Len(loc[h].attempts)].outcome = "throw"
    /\ Succeeded(h)
    /\ loc[h].via = "sendMail"

\* C14: when the reply-in-place dispatch has failed, sendMail is tried if
\* and only if the provider answered 403; after any other failure the
\* request has ended with the dispatch error and sendMail was not tried.
C14_FallbackIffPermissionDenied ==
  \A h \in Handlers :
    loc[h].replyError # "none"
    => /\ loc[h].sendMailTried <=> loc[h].replyError = "403"
       /\ loc[h].replyError # "403"
            => pc[h] = "done" /\ resp[h] = ErrorResponse(500, "dispatch")

\* a reply-in-place was answered with a status other than 403 and an error
\* body containing "403", and the message went out through sendMail
C14_Witness ==
  \E h \in Handlers :
    /\ loc[h].replyError = "500denied"
    /\ loc[h].sendMailTried
    /\ loc[h].via = "sendMail"
    /\ Succeeded(h)

\* C15: no provider call is made before the invocation has inserted its row,
\* and the row has status sent when the token is requested; a request that
\* ends with the token error has made no lookup, no dispatch and no poll, has
\* queued no bounce check, and has left exactly its one row, with status sent
\* and null message_id and conversation_id.
C15_RecordBeforeProvider ==
  \A h \in Handlers :
    /\ calls[h] > 0 => loc[h].emailId \in RowIds
    /\ pc[h] \in {"resolve", "insert", "setThread", "token"} => calls[h] = 0
    /\ pc[h] = "token" => OwnRow(h).status = "sent"
    /\ resp[h].error = "token"
         => /\ pc[h] = "done" /\ resp[h].status = 500
            /\ calls[h] <= 1
            /\ loc[h].attempts = <<>>
            /\ loc[h].replyTo = NoGraphId /\ ~loc[h].sendMailTried /\ loc[h].via = "none"
            /\ loc[h].retries = 0
            /\ Len(sentItems) = loc[h].emailId - 1
            /\ loc[h].emailId \notin pending_bounce_checks
            /\ loc[h].emailId = Len(email_history)
            /\ OwnRow(h).status = "sent"
            /\ OwnRow(h).message_id = NoMsg
            /\ OwnRow(h).conversation_id = NoMsg

\* the identity provider has rejected the token request of a reply
C15_Witness ==
  \E h \in Handlers :
    /\ pc[h] = "done"
    /\ resp[h] = ErrorResponse(500, "token")
    /\ calls[h] = 1
    /\ req[h].isReply
    /\ OwnRow(h).status = "sent"
    /\ OwnRow(h).message_id = NoMsg

\* the reconciliation loop has been left
Reconciled(h) == pc[h] = "queue" \/ Succeeded(h)

C16_Bounded ==
  \A h \in Handlers :
    /\ loc[h].retries <= MaxRetries
    /\ pc[h] = "poll" => loc[h].messageId = NoMsg /\ loc[h].retries < MaxRetries
    /\ Reconciled(h)
         => \/ /\ loc[h].messageId # NoMsg
               /\ OwnRow(h).message_id = loc[h].messageId
               /\ OwnRow(h).conversation_id = loc[h].conversationId
               /\ OwnRow(h).conversation_id # NoMsg
            \/ /\ loc[h].messageId = NoMsg
               /\ loc[h].retries = MaxRetries
               /\ OwnRow(h).message_id = NoMsg
               /\ OwnRow(h).conversation_id = NoMsg

Dispatched(h) == loc[h].via # "none"

C17_NeverAnError ==
  \A h \in Handlers :
    Dispatched(h)
    => /\ resp[h].status \in {0, 200}
       /\ pc[h] = "done"
            => /\ resp[h].status = 200
               /\ resp[h].emailId = loc[h].emailId
               /\ resp[h].emailId \in RowIds
               /\ resp[h].threadId = OwnRow(h).thread_id
               /\ resp[h].threadId # NoId

\* C17: once the message has been dispatched the response is never an
\* error, the handler comes to return, and what it returns is the success
\* response with the id and the thread id of its row, whether or not an id
\* was captured and the bounce check queued.
C17_SuccessDespiteSideEffects ==
  /\ []C17_NeverAnError
  /\ \A h \in {1} : Dispatched(h) ~> Succeeded(h)

\* success after four polls that captured nothing and a bounce check that
\* was not queued
C17_Witness ==
  \E h \in Handlers :
    /\ Succeeded(h)
    /\ loc[h].retries = MaxRetries
    /\ loc[h].messageId = NoMsg
    /\ loc[h].emailId \notin pending_bounce_checks
    /\ resp[h].emailId = loc[h].emailId


(***************************************************************************)
(* process-email-replies: the reply ingestion job.  Provider message ids   *)
(* are strings here, with or without angle brackets; <<>> is a null id or  *)
(* an absent header, 0 a null timestamp.                                   *)
(***************************************************************************)
MaxInboxMessages == 2

OtherSender == "you@crm"

\* `<${id}>`
Bracketed(id) == <<"<">> \o id \o <<">">>

StripBracketsIdentity(s) == s

\* s.replace(/^<|>$/g, '')
StripBrackets(s) ==
  LET a == IF s # <<>> /\ s[1] = "<" THEN Tail(s) ELSE s
  IN IF a # <<>> /\ a[Len(a)] = ">" THEN SubSeq(a, 1, Len(a) - 1) ELSE a

\* references.split(/\s+/): the pieces between runs of whitespace, an empty
\* piece before leading and after trailing whitespace
RECURSIVE SplitWhitespace(_)
SplitWhitespace(s) ==
  IF s = <<>> THEN << <<>> >>
  ELSE LET before == SplitWhitespace(SubSeq(s, 1, Len(s) - 1))
       IN IF s[Len(s)] # " " THEN [before EXCEPT ![Len(before)] = Append(@, s[Len(s)])]
          ELSE IF Len(s) >= 2 /\ s[Len(s) - 1] = " " THEN before
          ELSE Append(before, <<>>)

\* the In-Reply-To value, else the last token of References
ReplyToMessageId(msg) ==
  IF msg.inReplyTo # <<>> THEN msg.inReplyTo
  ELSE IF msg.references # <<>>
  THEN LET refList == SplitWhitespace(msg.references) IN refList[Len(refList)]
  ELSE <<>>

\* replies.push({...})
ReplyInfo(msg) ==
  [graph_message_id |-> msg.id,
   received_at |-> msg.receivedDateTime,
   in_reply_to |-> StripBrackets(ReplyToMessageId(msg))]

\* fetchInboxReplies, when the listing is answered: the inbox messages with a
\* reply header, newest first
FetchInboxReplies(messages) ==
  LET candidates == SelectSeq(messages, LAMBDA m : ReplyToMessageId(m) # <<>>)
  IN [i \in 1..Len(candidates) |-> ReplyInfo(candidates[i])]

Reverse(seq) == [i \in 1..Len(seq) |-> seq[Len(seq) + 1 - i]]

\* .gte('sent_at', sinceDate).not('message_id', 'is', null)
\* .not('status', 'eq', 'bounced').order('sent_at', { ascending: false })
SentEmailsQuery ==
  Reverse(SelectSeq(email_history,
                    LAMBDA e : e.recent /\ e.message_id # <<>> /\ e.status # "bounced"))

\* the keys of emailsBySender, in insertion order
RECURSIVE SendersInOrder(_)
SendersInOrder(es) ==
  IF es = <<>> THEN <<>>
  ELSE LET before == SendersInOrder(SubSeq(es, 1, Len(es) - 1))
           sender == es[Len(es)].sender_email
       IN IF \E i \in 1..Len(before) : before[i] = sender THEN before
          ELSE Append(before, sender)

\* emailsBySender.get(senderEmail)
EmailsOf(es, sender) == SelectSeq(es, LAMBDA e : e.sender_email = sender)

\* messageIdToEmail.get(key): every email sets its id and its stripped id, a
\* later email of the list replacing an earlier one under the same key
MessageIdToEmail(es, key) ==
  LET hits == {i \in 1..Len(es) :
                 /\ es[i].message_id # <<>>
                 /\ (es[i].message_id = key \/ StripBrackets(es[i].message_id) = key)}
  IN IF hits = {} THEN NoRow ELSE es[CHOOSE i \in hits : \A k \in hits : k <= i]

\* the three lookups: as given, with angle brackets, stripped
OriginalEmail(es, reply) ==
  LET asGiven == MessageIdToEmail(es, reply.in_reply_to)
      withBrackets == MessageIdToEmail(es, Bracketed(reply.in_reply_to))
      cleaned == MessageIdToEmail(es, StripBrackets(reply.in_reply_to))
  IN IF asGiven.id # NoId THEN asGiven
     ELSE IF withBrackets.id # NoId THEN withBrackets
     ELSE cleaned

ExistingReplyNever(emailId, graphId) == FALSE

\* .eq('email_history_id', ...).eq('graph_message_id', ...).single(): data
\* only when exactly one row matches
ExistingReply(emailId, graphId) ==
  Cardinality({i \in 1..Len(email_replies) :
                 /\ email_replies[i].email_history_id = emailId
                 /\ email_replies[i].graph_message_id = graphId}) = 1

Snapshot ==
  [replies |-> email_replies,
   counts |-> [i \in 1..Len(email_history) |-> email_history[i].reply_count]]

\* the run returns its response
Returned(record, status) ==
  [record EXCEPT !.pc = "done", !.status = status, !.after = Snapshot]

\* continue: the next reply of this sender, else the next sender
Continue(record) ==
  IF record.r < Len(record.replies)
  THEN [record EXCEPT !.pc = "check", !.r = @ + 1]
  ELSE [record EXCEPT !.pc = "fetch", !.s = @ + 1]

\* getAccessToken()
JobToken(j) ==
  /\ job[j].pc = "idle"
  /\ \E ok \in BOOLEAN :
       LET started == [job[j] EXCEPT !.overlap =
                         \E k \in Jobs \ {j} : job[k].pc \notin {"idle", "done"}]
       IN job' = [job EXCEPT ![j] =
                    IF ok THEN [started EXCEPT !.pc = "select"]
                    ELSE Returned([started EXCEPT !.failed = @ \cup {"token"}], 500)]
  /\ UNCHANGED <<dbVars, sendVars, threadVars, email_replies, notifications, inbox, clickVars>>

\* the query of the sent emails and their grouping by sender
JobSelect(j) ==
  /\ job[j].pc = "select"
  /\ \E ok \in BOOLEAN :
       job' = [job EXCEPT ![j] =
                 IF ~ok THEN Returned([@ EXCEPT !.failed = @ \cup {"select"}], 500)
                 ELSE IF SentEmailsQuery = <<>> THEN Returned(@, 200)
                 ELSE [@ EXCEPT !.pc = "fetch",
                                !.sentEmails = SentEmailsQuery,
                                !.senders = SendersInOrder(SentEmailsQuery),
                                !.s = 1]]
  /\ UNCHANGED <<dbVars, sendVars, threadVars, email_replies, notifications, inbox, clickVars>>

\* fetchInboxReplies for the next sender: [] when the listing fails
JobFetch(j) ==
  /\ job[j].pc = "fetch"
  /\ job[j].s <= Len(job[j].senders)
  /\ \E ok \in BOOLEAN :
       LET replies == IF ok THEN FetchInboxReplies(inbox[job[j].senders[job[j].s]])
                      ELSE <<>>
           failed == IF ok THEN job[j].failed ELSE job[j].failed \cup {"fetch"}
       IN job' = [job EXCEPT ![j] =
                    IF replies = <<>>
                    THEN [@ EXCEPT !.failed = failed, !.replies = <<>>, !.r = 0, !.s = @ + 1]
                    ELSE [@ EXCEPT !.failed = failed, !.replies = replies, !.r = 1,
                                   !.pc = "check"]]
  /\ UNCHANGED <<dbVars, sendVars, threadVars, email_replies, notifications, inbox, clickVars>>

\* every sender has been processed
JobReturn(j) ==
  /\ job[j].pc = "fetch"
  /\ job[j].s > Len(job[j].senders)
  /\ job' = [job EXCEPT ![j] = Returned(@, 200)]
  /\ UNCHANGED <<dbVars, sendVars, threadVars, email_replies, notifications, inbox, clickVars>>

\* the reply is matched to a sent email and looked up in email_replies
JobCheck(j) ==
  /\ job[j].pc = "check"
  /\ LET reply == job[j].replies[job[j].r]
         sender == job[j].senders[job[j].s]
         original == IF reply.in_reply_to = <<>> THEN NoRow
                     ELSE OriginalEmail(EmailsOf(job[j].sentEmails, sender), reply)
         seen == [job[j] EXCEPT !.examined = [sender |-> sender,
                                              id |-> reply.graph_message_id],
                                !.originalEmail = original]
     IN job' = [job EXCEPT ![j] =
                  IF original.id = NoId THEN Continue(seen)
                  ELSE IF ExistingReply(original.id, reply.graph_message_id)
                  THEN Continue([seen EXCEPT !.alreadyRecorded = @ + 1])
                  ELSE [seen EXCEPT !.pc = "insert"]]
  /\ UNCHANGED <<dbVars, sendVars, threadVars, email_replies, notifications, inbox, clickVars>>

InsertReplyUpsert(table, row) ==
  IF \E i \in 1..Len(table) : table[i].email_history_id = row.email_history_id
  THEN [i \in 1..Len(table) |->
          IF table[i].email_history_id = row.email_history_id THEN row ELSE table[i]]
  ELSE Append(table, row)

\* .from('email_replies').insert(row): a new row, the others untouched
InsertReply(table, row) == Append(table, row)

\* supabase.from('email_replies').insert({...})
JobInsert(j) ==
  /\ job[j].pc = "insert"
  /\ \E ok \in BOOLEAN :
       IF ok
       THEN /\ email_replies' =
                 InsertReply(email_replies,
                        [email_history_id |-> job[j].originalEmail.id,
                         graph_message_id |-> job[j].replies[job[j].r].graph_message_id,
                         received_at |-> job[j].replies[job[j].r].received_at])
            /\ job' = [job EXCEPT ![j].pc = "update",
                                   ![j].inserted =
                                      @ \cup {<<job[j].originalEmail.id,
                                                job[j].replies[job[j].r].graph_message_id>>}]
       ELSE /\ job' = [job EXCEPT ![j] = Continue([@ EXCEPT !.failed = @ \cup {"insert"}])]
            /\ UNCHANGED email_replies
  /\ UNCHANGED <<dbVars, sendVars, threadVars, notifications, inbox, clickVars>>

\* const updateData = {...}, from the row as the run selected it
UpdateData(row, original, reply) ==
  [row EXCEPT !.reply_count = original.reply_count + 1,
              !.last_reply_at = reply.received_at,
              !.status = "replied",
              !.replied_at = IF original.reply_count = 0 THEN reply.received_at ELSE @]

\* supabase.from('email_history').update(updateData).eq('id', originalEmail.id)
JobUpdate(j) ==
  /\ job[j].pc = "update"
  /\ \E ok \in BOOLEAN :
       IF ok
       THEN /\ email_history' =
                 [email_history EXCEPT ![job[j].originalEmail.id] =
                    UpdateData(@, job[j].originalEmail, job[j].replies[job[j].r])]
            /\ job' = [job EXCEPT ![j].pc = "notify"]
       ELSE /\ job' = [job EXCEPT ![j] = Continue([@ EXCEPT !.failed = @ \cup {"update"}])]
            /\ UNCHANGED email_history
  /\ UNCHANGED <<pending_bounce_checks, sentItems, sendVars, threadVars, email_replies,
                 notifications, inbox, clickVars>>

AfterNotifySkipOnError(record, ok) ==
  Continue(IF ok THEN [record EXCEPT !.repliesFound = @ + 1,
                                     !.processedReplies = Append(@, record.originalEmail.id)]
           ELSE [record EXCEPT !.failed = @ \cup {"notify"}])

\* if (notifError) console.warn(...); totalRepliesFound++;
\* processedReplies.push(originalEmail.id)
AfterNotify(record, ok) ==
  Continue([record EXCEPT !.repliesFound = @ + 1,
                          !.processedReplies = Append(@, record.originalEmail.id),
                          !.failed = IF ok THEN @ ELSE @ \cup {"notify"}])

\* the notification for the sending user, then totalRepliesFound++
JobNotify(j) ==
  /\ job[j].pc = "notify"
  /\ \E ok \in {b \in BOOLEAN : job[j].originalEmail.sent_by = NoId => b} :
       /\ notifications' =
            IF ok /\ job[j].originalEmail.sent_by # NoId
            THEN Append(notifications, [user_id |-> job[j].originalEmail.sent_by,
                                        email |-> job[j].originalEmail.id])
            ELSE notifications
       /\ job' = [job EXCEPT ![j] = AfterNotify(@, ok)]
  /\ UNCHANGED <<dbVars, sendVars, threadVars, email_replies, inbox, clickVars>>

JobStep(j) ==
  \/ JobToken(j)
  \/ JobSelect(j)
  \/ JobFetch(j)
  \/ JobReturn(j)
  \/ JobCheck(j)
  \/ JobInsert(j)
  \/ JobUpdate(j)
  \/ JobNotify(j)

(***************************************************************************)
(* The tables and inboxes the job finds.                                   *)
(***************************************************************************)
MessageIds == {<<>>, <<"a">>, Bracketed(<<"a">>)}

\* a row is in or out of the 30 day window, and bounced or not; the first
\* row is a message of Sender, sent with or without a signed-in user
Selectability == {[recent |-> TRUE, status |-> "sent"],
                  [recent |-> FALSE, status |-> "sent"],
                  [recent |-> TRUE, status |-> "bounced"]}

IngestRows(id) ==
  {[id |-> id, sender_email |-> sender, message_id |-> mid, status |-> sel.status,
    recent |-> sel.recent, sent_by |-> user, reply_count |-> 0, last_reply_at |-> 0,
    replied_at |-> 0] :
     sender \in IF id = 1 THEN {Sender} ELSE {Sender, OtherSender},
     mid \in MessageIds, sel \in Selectability,
     user \in IF id = 1 THEN {NoId, 1} ELSE {1}}

\* the reply headers of an inbox message, as the sending mail program wrote
\* them: none, In-Reply-To in raw or bracketed form, In-Reply-To of a message
\* not in the table, References only, References only and ending in whitespace
ReplyHeaders ==
  {[inReplyTo |-> <<>>, references |-> <<>>],
   [inReplyTo |-> <<"a">>, references |-> <<>>],
   [inReplyTo |-> Bracketed(<<"a">>), references |-> <<>>],
   [inReplyTo |-> Bracketed(<<"b">>), references |-> <<>>],
   [inReplyTo |-> <<>>,
    references |-> Bracketed(<<"b">>) \o <<" ", " ">> \o Bracketed(<<"a">>)],
   [inReplyTo |-> <<>>, references |-> Bracketed(<<"a">>) \o <<" ">>]}

InboxMessage(n, k, headers) ==
  [id |-> <<"g", k>>, inReplyTo |-> headers.inReplyTo, references |-> headers.references,
   receivedDateTime |-> n + 1 - k]

\* $orderby=receivedDateTime desc
Inboxes ==
  UNION {{[k \in 1..n |-> InboxMessage(n, k, h[k])] : h \in [1..n -> ReplyHeaders]} :
           n \in 0..MaxInboxMessages}

InitIngest ==
  /\ email_history \in {<<a, b>> : a \in IngestRows(1), b \in IngestRows(2)}
  /\ email_replies = <<>>
  /\ notifications = <<>>
  /\ \E mine \in Inboxes :
       inbox = [sender \in {Sender, OtherSender} |->
                  IF sender = Sender THEN mine
                  ELSE <<[id |-> <<"g", 0>>, inReplyTo |-> Bracketed(<<"a">>),
                          references |-> <<>>, receivedDateTime |-> 1]>>]
  /\ InitJobsIdle
  /\ pending_bounce_checks = {}
  /\ sentItems = <<>>
  /\ InitSendIdle
  /\ InitViewEmpty
  /\ InitClickIdle

\* the job is run, and run again when the first run has returned
NextIngest ==
  \/ JobStep(1)
  \/ job[1].pc = "done" /\ JobStep(2)

SpecIngest == InitIngest /\ [][NextIngest]_vars

\* two runs of the job that may overlap (the scheduler and a manual
\* invocation), over messages of Sender that can be matched
InitOverlap ==
  /\ InitIngest
  /\ \A i \in 1..Len(email_history) :
       /\ email_history[i].recent
       /\ email_history[i].status = "sent"
       /\ email_history[i].sender_email = Sender
       /\ email_history[i].sent_by = 1
  /\ email_history[1].message_id = <<"a">>

NextOverlap == \E j \in Jobs : JobStep(j)

SpecOverlap == InitOverlap /\ [][NextOverlap]_vars

(***************************************************************************)
(* Claims about the reply ingestion job, checked under SpecIngest.         *)
(***************************************************************************)
SetMax(S) == CHOOSE x \in S : \A y \in S : y <= x

\* two id strings are the same provider id, raw or in angle brackets
SameId(x, y) ==
  \E core \in {<<"a">>, <<"b">>} :
    x \in {core, Bracketed(core)} /\ y \in {core, Bracketed(core)}

\* the inbox message a run examined last
Examined(j) ==
  LET box == inbox[job[j].examined.sender]
  IN box[CHOOSE k \in 1..Len(box) : box[k].id = job[j].examined.id]

HasExamined(j) == job[j].examined.id # <<>> /\ Examined(j).inReplyTo # <<>>

\* the positions, in the list the run selected, of the sender's messages that
\* carry the id of the examined reply's In-Reply-To header
Candidates(j) ==
  {i \in 1..Len(job[j].sentEmails) :
     /\ job[j].sentEmails[i].sender_email = job[j].examined.sender
     /\ SameId(job[j].sentEmails[i].message_id, Examined(j).inReplyTo)}

\* C2 as stated: a reply in the sender's inbox whose In-Reply-To header
\* carries the provider id of a Message record, raw or bracketed, is matched
\* to exactly that record.
C2_MatchedToThatMessage ==
  \A j \in Jobs : \A m \in 1..Len(email_history) :
    (/\ HasExamined(j)
     /\ email_history[m].message_id # <<>>
     /\ email_history[m].sender_email = job[j].examined.sender
     /\ SameId(email_history[m].message_id, Examined(j).inReplyTo))
    => job[j].originalEmail.id = m

\* C2: a fetched reply whose In-Reply-To header carries, raw or bracketed,
\* the provider id of messages the run selected for that sender is matched to
\* exactly one of them, the one listed last (sent earliest); so to that
\* message itself when no other selected message of the sender carries the
\* id.  A reply whose id no selected message of the sender carries is matched
\* to none.
C2_MatchedAmongSelected ==
  \A j \in Jobs :
    HasExamined(j) =>
      IF Candidates(j) = {} THEN job[j].originalEmail.id = NoId
      ELSE /\ job[j].originalEmail.id =
                job[j].sentEmails[SetMax(Candidates(j))].id
           /\ Cardinality(Candidates(j)) = 1 =>
                \A i \in Candidates(j) : job[j].originalEmail.id = job[j].sentEmails[i].id

\* a reply whose header has the other form than the stored id has been
\* matched to the single selected message carrying the id, a second selected
\* message of the sender being passed over
C2_Witness ==
  \E j \in Jobs :
    /\ HasExamined(j)
    /\ Cardinality(Candidates(j)) = 1
    /\ Len(job[j].sentEmails) = 2
    /\ \A i \in Candidates(j) :
         /\ job[j].sentEmails[i].message_id # Examined(j).inReplyTo
         /\ job[j].originalEmail.id = job[j].sentEmails[i].id

NoDuplicateReply ==
  \A a, b \in 1..Len(email_replies) :
    (/\ a # b
     /\ email_replies[a].email_history_id = email_replies[b].email_history_id)
    => email_replies[a].graph_message_id # email_replies[b].graph_message_id

SecondRunChangedNothing ==
  job[2].pc = "done" => Snapshot = job[1].after

LeavesUnrecorded == {"token", "select", "fetch", "insert"}

RecordsOf(pair) ==
  Cardinality({i \in 1..Len(email_replies) :
                 <<email_replies[i].email_history_id,
                   email_replies[i].graph_message_id>> = pair})

RecordedPairs ==
  {<<email_replies[i].email_history_id, email_replies[i].graph_message_id>> :
     i \in 1..Len(email_replies)}

RepliesRecorded(m) ==
  Cardinality({i \in 1..Len(email_replies) : email_replies[i].email_history_id = m})

\* C19: when no run is between the insert of a Reply record and the update
\* of its message, the reply_count of every message is the number of Reply
\* records for it.
C19_ReplyCountIsRecords ==
  (\A j \in Jobs : job[j].pc # "update")
    => \A m \in 1..Len(email_history) : email_history[m].reply_count = RepliesRecorded(m)

\* a run without any failure has recorded two replies to one message, whose
\* reply_count is 1
C19_Witness ==
  /\ job[1].pc = "done"
  /\ job[1].failed = {}
  /\ job[2].pc = "idle"
  /\ \E m \in 1..Len(email_history) :
       /\ RepliesRecorded(m) = 2
       /\ email_history[m].reply_count = 1

\* C20: a step taken when a message has a Reply record besides the one just
\* inserted leaves the message's replied_at unchanged.
C20_RepliedAtOnlyFirst ==
  [][\A m \in 1..Len(email_history) :
       RepliesRecorded(m) >= 2 => email_history'[m].replied_at = email_history[m].replied_at]_vars

\* a run without any failure has recorded two replies to one message, and
\* replied_at is the time of the one recorded second
C20_Witness ==
  /\ job[1].pc = "done"
  /\ job[1].failed = {}
  /\ job[2].pc = "idle"
  /\ \E a, b \in 1..Len(email_replies) :
       /\ a < b
       /\ email_replies[a].email_history_id = email_replies[b].email_history_id
       /\ email_replies[a].received_at # email_replies[b].received_at
       /\ email_history[email_replies[a].email_history_id].replied_at
            = email_replies[b].received_at

\* C23: the step that creates the notification, failing or not, leaves the
\* Reply records and the Message records as written and counts the reply in
\* repliesFound and processedReplies; a run whose only failures were
\* notifications reports every reply it recorded.
C23_NotificationFailureKeepsReply ==
  [][\A j \in Jobs :
       (job[j].pc = "notify" /\ job'[j] # job[j]) =>
         /\ email_replies' = email_replies
         /\ email_history' = email_history
         /\ email_history[job[j].originalEmail.id].status = "replied"
         /\ email_history[job[j].originalEmail.id].last_reply_at
              = job[j].replies[job[j].r].received_at
         /\ \E i \in 1..Len(email_replies) :
              /\ email_replies[i].email_history_id = job[j].originalEmail.id
              /\ email_replies[i].graph_message_id
                   = job[j].replies[job[j].r].graph_message_id
         /\ job'[j].repliesFound = job[j].repliesFound + 1
         /\ job'[j].processedReplies
              = Append(job[j].processedReplies, job[j].originalEmail.id)]_vars

\* a first run in which nothing but the notification failed has returned: no
\* notification exists, the reply is recorded, the message is replied with a
\* reply_count of 1, and the summary counts the reply
C23_Witness ==
  /\ job[1].pc = "done"
  /\ job[2].pc = "idle"
  /\ job[1].failed = {"notify"}
  /\ notifications = <<>>
  /\ Len(email_replies) = 1
  /\ job[1].repliesFound = 1
  /\ job[1].processedReplies = <<email_replies[1].email_history_id>>
  /\ email_history[email_replies[1].email_history_id].status = "replied"
  /\ email_history[email_replies[1].email_history_id].reply_count = 1

\* C24: no step deletes a Message record or changes its id, and no step
\* changes or deletes an existing Reply record; a Reply record is written
\* once, by the insert step of a run of the ingestion job.
C24_NoDeleteNoRewrite ==
  [][/\ Len(email_history') >= Len(email_history)
     /\ \A i \in 1..Len(email_history) : email_history'[i].id = email_history[i].id
     /\ Len(email_replies') >= Len(email_replies)
     /\ \A i \in 1..Len(email_replies) : email_replies'[i] = email_replies[i]
     /\ email_replies' # email_replies =>
          /\ Len(email_replies') = Len(email_replies) + 1
          /\ \E j \in Jobs : job[j].pc = "insert" /\ job'[j].pc = "update"]_vars

\* two replies to one message have been recorded one after the other and the
\* message updated after each, and a second run has passed over both
C24_Witness ==
  /\ job[2].pc = "done"
  /\ job[2].alreadyRecorded = 2
  /\ Len(email_replies) = 2
  /\ email_replies[1].email_history_id = email_replies[2].email_history_id
  /\ email_history[email_replies[1].email_history_id].status = "replied"

\* C25: when no run is in progress and every database call of the runs so
\* far succeeded, last_reply_at of a Message record with Reply records is the
\* latest received_at among them.
C25_LastReplyIsLatest ==
  (\A j \in Jobs : job[j].pc \in {"idle", "done"} /\ job[j].failed = {})
    => \A m \in 1..Len(email_history) :
         RepliesRecorded(m) > 0
           => email_history[m].last_reply_at =
                SetMax({email_replies[i].received_at :
                          i \in {k \in 1..Len(email_replies) :
                                   email_replies[k].email_history_id = m}})

\* one run without any failure has recorded two replies to one message, the
\* newer one first, and last_reply_at is the time of the older one
C25_Witness ==
  /\ job[1].pc = "done"
  /\ job[1].failed = {}
  /\ job[2].pc = "idle"
  /\ Len(email_replies) = 2
  /\ email_replies[1].email_history_id = email_replies[2].email_history_id
  /\ email_replies[1].received_at > email_replies[2].received_at
  /\ email_history[email_replies[1].email_history_id].last_reply_at
       = email_replies[2].received_at

\* a run is processing the replies it fetched from the inbox of its sender
Processing(j) == job[j].pc \in {"check", "insert", "update", "notify"}

\* the fetched replies hold the inbox message with this provider id
IsCandidate(j, id) ==
  \E i \in 1..Len(job[j].replies) : job[j].replies[i].graph_message_id = id

\* C21: the replies a run fetched from an inbox are the inbox messages that
\* carry an In-Reply-To or a References header, and the target of each is its
\* In-Reply-To value, else the last token of its References list.
C21_CandidateIffReplyHeader ==
  \A j \in Jobs :
    Processing(j) =>
      LET box == inbox[job[j].senders[job[j].s]]
      IN \A k \in 1..Len(box) :
           /\ IsCandidate(j, box[k].id)
                <=> (box[k].inReplyTo # <<>> \/ box[k].references # <<>>)
           /\ \A i \in 1..Len(job[j].replies) :
                job[j].replies[i].graph_message_id = box[k].id
                  => job[j].replies[i].in_reply_to =
                       StripBrackets(IF box[k].inReplyTo # <<>> THEN box[k].inReplyTo
                                     ELSE LET refList == SplitWhitespace(box[k].references)
                                          IN refList[Len(refList)])

\* a run fetched the replies of an inbox and left out a message whose only
\* reply header is a References list that ends in whitespace
C21_Witness ==
  \E j \in Jobs :
    /\ Processing(j)
    /\ \E k \in 1..Len(inbox[job[j].senders[job[j].s]]) :
         LET msg == inbox[job[j].senders[job[j].s]][k]
         IN /\ msg.inReplyTo = <<>>
            /\ msg.references # <<>>
            /\ msg.references[Len(msg.references)] = " "
            /\ ~IsCandidate(j, msg.id)

(***************************************************************************)
(* Inputs of the thread assembly. A null reply_count is 0 (both falsy).    *)
(***************************************************************************)
ThreadIds == {NoId} \cup (1..MaxThreadEmails)

\* (status, bounce_type, reply_count) as the writers of email_history leave
\* them: the send handler, the delivery and open trackers, the ingestion
\* job and the bounce monitor
ThreadEngagements ==
  { <<"sent", NULL, 0>>, <<"delivered", NULL, 0>>, <<"opened", NULL, 0>>,
    <<"replied", NULL, 1>>, <<"bounced", "hard", 0>>, <<"bounced", "hard", 1>> }

OrderFields ==
  [thread_id : ThreadIds, sent_at : 1..MaxTs, status : {"sent"},
   bounce_type : {NULL}, reply_count : {0}]

StatusFields ==
  { [thread_id |-> t, sent_at |-> 1, status |-> e[1], bounce_type |-> e[2],
     reply_count |-> e[3]] : t \in ThreadIds, e \in ThreadEngagements }

EmailItems(n, Fields) ==
  { [i \in 1..n |-> [id |-> i] @@ g[i]] : g \in [1..n -> Fields] }

\* repliesMap: at most one fetched reply per email, received at r[i]
ReplyMaps(n, Ts) ==
  { [i \in 1..n |->
       IF r[i] = 0 THEN <<>>
       ELSE <<[id |-> i, email_history_id |-> i, received_at |-> r[i]]>>]
    : r \in [1..n -> {0} \cup Ts] }

InitThreads ==
  /\ \E n \in 0..MaxThreadEmails :
        \/ /\ emails \in EmailItems(n, OrderFields)
           /\ repliesMap \in ReplyMaps(n, 1..MaxTs)
        \/ /\ emails \in EmailItems(n, StatusFields)
           /\ repliesMap \in ReplyMaps(n, {1})
  /\ threads = <<>>
  /\ rendered = FALSE
  /\ view = NoView
  /\ InitDbEmpty
  /\ InitSendIdle
  /\ InitIngestIdle
  /\ InitClickIdle

\* the useMemo callback runs for the current emails and repliesMap
Render ==
  /\ ~rendered
  /\ threads' = ThreadsOf(emails, repliesMap)
  /\ rendered' = TRUE
  /\ UNCHANGED <<emails, repliesMap, view, dbVars, sendVars, ingestVars, clickVars>>

NextThreads == Render

SpecThreads == InitThreads /\ [][NextThreads]_vars

(***************************************************************************)
(* EntityEmailHistory: the list of the view, filled by fetchEmails and by  *)
(* the realtime subscription to table email_history.  The view shows       *)
(* entity 1; rows carry the entity they belong to.  The rows of this       *)
(* specification have no replies (reply_count 0), so fetchEmails leaves    *)
(* repliesMap as it is.                                                    *)
(***************************************************************************)
MaxViewRows == 2

\* a Message record is inserted (the send path), and the change is published
\* to the subscribers of the table
DbInsert ==
  /\ Len(email_history) < MaxViewRows
  /\ \E entity \in {1, 2}, thread \in {NoId} \cup RowIds :
       LET row == [id |-> Len(email_history) + 1, thread_id |-> thread,
                   sent_at |-> Len(email_history) + 1, status |-> "sent",
                   bounce_type |-> NULL, reply_count |-> 0, entity |-> entity]
       IN /\ email_history' = Append(email_history, row)
          /\ view' = [view EXCEPT !.events = Append(@, [eventType |-> "INSERT", new |-> row])]
  /\ UNCHANGED <<pending_bounce_checks, sentItems, emails, repliesMap, threads, rendered,
                 sendVars, ingestVars, clickVars>>

\* the status of a Message record is updated, and the change is published
DbUpdate(id) ==
  /\ id \in RowIds
  /\ email_history[id].status = "sent"
  /\ LET row == [email_history[id] EXCEPT !.status = "opened"]
     IN /\ email_history' = [email_history EXCEPT ![id] = row]
        /\ view' = [view EXCEPT !.events = Append(@, [eventType |-> "UPDATE", new |-> row])]
  /\ UNCHANGED <<pending_bounce_checks, sentItems, emails, repliesMap, threads, rendered,
                 sendVars, ingestVars, clickVars>>

\* fetchEmails up to `await query`: the server evaluates
\* .eq('<entity>_id', entityId).order('sent_at', { ascending: false }), or
\* answers with an error, which fetchEmails throws and catches
FetchEmailsQuery ==
  /\ view.fetch = "idle"
  /\ \E ok \in BOOLEAN :
       view' = IF ok
               THEN [view EXCEPT !.fetch = "pending",
                                 !.data = Reverse(SelectSeq(email_history,
                                                            LAMBDA e : e.entity = 1))]
               ELSE view
  /\ UNCHANGED <<dbVars, emails, repliesMap, threads, rendered, sendVars, ingestVars,
                 clickVars>>

\* fetchEmails from the answer on: setEmails(data)
FetchEmailsSet ==
  /\ view.fetch = "pending"
  /\ emails' = view.data
  /\ view' = [view EXCEPT !.fetch = "idle", !.data = <<>>]
  /\ rendered' = FALSE
  /\ UNCHANGED <<dbVars, repliesMap, threads, sendVars, ingestVars, clickVars>>

\* the callback of .on('postgres_changes', ...) for the next event
OnPostgresChange ==
  /\ view.events # <<>>
  /\ LET payload == Head(view.events)
     IN emails' =
          IF payload.eventType = "INSERT"
          THEN IF payload.new.entity = 1 THEN <<payload.new>> \o emails ELSE emails
          ELSE [i \in 1..Len(emails) |->
                  IF emails[i].id = payload.new.id THEN payload.new ELSE emails[i]]
  /\ view' = [view EXCEPT !.events = Tail(@)]
  /\ rendered' = FALSE
  /\ UNCHANGED <<dbVars, repliesMap, threads, sendVars, ingestVars, clickVars>>

\* the mounted view of entity 1, subscribed, before its first fetch
InitView ==
  /\ InitViewEmpty
  /\ InitDbEmpty
  /\ InitSendIdle
  /\ InitIngestIdle
  /\ InitClickIdle

NextView ==
  \/ DbInsert
  \/ \E id \in 1..MaxViewRows : DbUpdate(id)
  \/ FetchEmailsQuery
  \/ FetchEmailsSet
  \/ OnPostgresChange
  \/ Render

SpecView == InitView /\ [][NextView]_vars

(***************************************************************************)
(* Claims about the thread assembly.                                       *)
(***************************************************************************)
ThreadMembers(k) == {i \in 1..Len(emails) : ThreadKey(emails[i]) = k}

\* C4: whatever the order of the Message and Reply records in the input,
\* the messages of every produced thread are in ascending timestamp order,
\* a thread's last activity is its latest timestamp, and the threads are in
\* descending order of last activity.
C4_ThreadOrdering ==
  rendered =>
    /\ \A t \in 1..Len(threads) :
         /\ \A a, b \in 1..Len(threads[t].messages) :
              a < b => threads[t].messages[a].timestamp <= threads[t].messages[b].timestamp
         /\ threads[t].lastActivity =
              SetMax({threads[t].messages[a].timestamp : a \in 1..Len(threads[t].messages)})
         /\ Len(threads[t].messages) >= Cardinality(ThreadMembers(threads[t].threadId))
    /\ \A t, u \in 1..Len(threads) :
         t < u => threads[t].lastActivity >= threads[u].lastActivity

\* C4 witness: an input whose records are out of order both inside a thread
\* and across threads has been assembled.
C4_Witness ==
  /\ rendered
  /\ Len(threads) >= 2
  /\ [t \in 1..Len(threads) |-> threads[t].threadId] # ThreadKeysInOrder(emails)
  /\ \E t \in 1..Len(threads) :
       threads[t].messages #
         CollectMessages(ThreadGroup(emails, threads[t].threadId), repliesMap)

BouncePresent(k) == \E i \in ThreadMembers(k) : emails[i].bounce_type # NULL

ReplyPresent(k) ==
  \E i \in ThreadMembers(k) :
    RepliesOf(repliesMap, emails[i].id) # <<>> \/ emails[i].reply_count > 0

StatusPresent(k, st) == \E i \in ThreadMembers(k) : emails[i].status = st

MaxUrlLen == 4

\* a %XX escape at the head of s
IsEscape(s) == Len(s) >= 3 /\ s[1] = "%" /\ s[2] \in {"2", "5"} /\ s[3] \in {"2", "5"}

\* the character that %ab stands for
Unescape(a, b) ==
  CASE a = "2" /\ b = "5" -> "%"
    [] a = "2" /\ b = "2" -> "'"
    [] a = "5" /\ b = "2" -> "R"
    [] OTHER -> "U"

\* percent-decoding: every %XX escape is replaced by its character.
\* url.searchParams.get(name) decodes the query value this way and keeps a
\* % that starts no escape; decodeURIComponent gives the same result when it
\* does not throw
RECURSIVE PercentDecode(_)
PercentDecode(s) ==
  IF s = <<>> THEN <<>>
  ELSE IF IsEscape(s) THEN <<Unescape(s[2], s[3])>> \o PercentDecode(SubSeq(s, 4, Len(s)))
  ELSE <<s[1]>> \o PercentDecode(Tail(s))

\* decodeURIComponent(s) throws URIError: s has a % that starts no escape
RECURSIVE URIMalformed(_)
URIMalformed(s) ==
  IF s = <<>> THEN FALSE
  ELSE IF IsEscape(s) THEN URIMalformed(SubSeq(s, 4, Len(s)))
  ELSE s[1] = "%" \/ URIMalformed(Tail(s))

MaxLinkLen == 3

\* encodeURIComponent(url): a character outside the unreserved set becomes
\* its %XX escape, here % itself (%25); letters and digits stay
RECURSIVE EncodeURIComponent(_)
EncodeURIComponent(s) ==
  IF s = <<>> THEN <<>>
  ELSE (IF s[1] = "%" THEN <<"%", "2", "5">> ELSE <<s[1]>>) \o EncodeURIComponent(Tail(s))

\* the link URLs of a message body that rewriteLinksForTracking rewrites,
\* without their scheme: what follows https:// in href="https://..."
LinkUrls == UNION {[1..n -> {"x", "%", "2", "5"}] : n \in 1..MaxLinkLen}

\* return new Response(null, { status: 302, headers: { "Location": decodedUrl } })
Redirect(c) == [c EXCEPT !.pc = "done", !.status = 302, !.location = c.decodedUrl]

\* a request arrives: id and url are the raw query values (NoId and <<>>
\* for a missing or empty one).  A URIError of decodeURIComponent is caught
\* by the outer catch, which decodes the same value again and so throws out
\* of the handler: the server answers 500.
ClickReceive(c, id, url) ==
  /\ click[c].pc = "idle"
  /\ LET targetUrl == PercentDecode(url)
         seen == [click[c] EXCEPT !.id = id, !.url = url, !.targetUrl = targetUrl]
     IN click' = [click EXCEPT ![c] =
          IF targetUrl = <<>> THEN [seen EXCEPT !.pc = "done", !.status = 400]
          ELSE IF URIMalformed(targetUrl)
          THEN [seen EXCEPT !.pc = "done", !.status = 500, !.failed = {"decode"}]
          ELSE LET decoded == [seen EXCEPT !.decodedUrl = PercentDecode(targetUrl)]
               IN IF id # NoId THEN [decoded EXCEPT !.pc = "fetch"]
                  ELSE Redirect(decoded)]
  /\ UNCHANGED <<dbVars, sendVars, threadVars, ingestVars, contacts>>

\* supabase.from("email_history").select(...).eq("id", emailId).single():
\* the row, an error (also when no row has the id), or a rejected request
ClickFetch(c) ==
  /\ click[c].pc = "fetch"
  /\ \E o \in {"error", "throw"} \cup (IF click[c].id \in RowIds THEN {"data"} ELSE {}) :
       click' = [click EXCEPT ![c] =
         IF o = "data"
         THEN [click[c] EXCEPT !.pc = "update",
                               !.emailData = email_history[click[c].id],
                               !.isFirstClick = email_history[click[c].id].click_count = 0]
         ELSE Redirect([click[c] EXCEPT !.failed = @ \cup {"fetch"}])]
  /\ UNCHANGED <<dbVars, sendVars, threadVars, ingestVars, contacts>>

\* what follows the update of the click count
AfterClickUpdate(c) ==
  IF c.isFirstClick /\ c.emailData.contact_id # NoId THEN [c EXCEPT !.pc = "contact"]
  ELSE IF c.isFirstClick /\ c.emailData.sent_by # NoId THEN [c EXCEPT !.pc = "notify"]
  ELSE Redirect(c)

\* supabase.from("email_history").update(updateData).eq("id", emailId)
ClickUpdate(c) ==
  /\ click[c].pc = "update"
  /\ \E o \in {"ok", "error", "throw"} :
       /\ email_history' =
            IF o = "ok"
            THEN [email_history EXCEPT
                    ![click[c].id].click_count = click[c].emailData.click_count + 1,
                    ![click[c].id].clicked_at = IF click[c].isFirstClick THEN 1 ELSE @]
            ELSE email_history
       /\ click' = [click EXCEPT ![c] =
            IF o = "ok" THEN AfterClickUpdate(click[c])
            ELSE IF o = "error"
            THEN AfterClickUpdate([click[c] EXCEPT !.failed = @ \cup {"update"}])
            ELSE Redirect([click[c] EXCEPT !.failed = @ \cup {"update"}])]
  /\ UNCHANGED <<pending_bounce_checks, sentItems, sendVars, threadVars, ingestVars, contacts>>

\* what follows the contact engagement update
AfterContact(c) ==
  IF c.emailData.sent_by # NoId THEN [c EXCEPT !.pc = "notify"] ELSE Redirect(c)

\* supabase.from("contacts").select("email_clicks, engagement_score").single()
ClickContactRead(c) ==
  /\ click[c].pc = "contact"
  /\ \E o \in {"none", "throw"}
            \cup (IF click[c].emailData.contact_id \in 1..Len(contacts) THEN {"data"} ELSE {}) :
       click' = [click EXCEPT ![c] =
         IF o = "data"
         THEN [click[c] EXCEPT !.pc = "contactUpdate",
                               !.contact = contacts[click[c].emailData.contact_id]]
         ELSE IF o = "none" THEN AfterContact(click[c])
         ELSE Redirect([click[c] EXCEPT !.failed = @ \cup {"contact"}])]
  /\ UNCHANGED <<dbVars, sendVars, threadVars, ingestVars, contacts>>

\* supabase.from("contacts").update({ email_clicks, engagement_score }), with
\* engagement_score Math.min(score + 10, 100): the answer is not read, a
\* rejected request throws
ClickContactUpdate(c) ==
  /\ click[c].pc = "contactUpdate"
  /\ \E o \in {"ok", "error", "throw"} :
       /\ contacts' =
            IF o = "ok"
            THEN [contacts EXCEPT
                    ![click[c].emailData.contact_id].email_clicks = click[c].contact.email_clicks + 1,
                    ![click[c].emailData.contact_id].engagement_score =
                       IF click[c].contact.engagement_score + 10 < 100
                       THEN click[c].contact.engagement_score + 10 ELSE 100]
            ELSE contacts
       /\ click' = [click EXCEPT ![c] =
            IF o = "throw" THEN Redirect([click[c] EXCEPT !.failed = @ \cup {"contact"}])
            ELSE AfterContact(IF o = "ok" THEN click[c]
                              ELSE [click[c] EXCEPT !.failed = @ \cup {"contact"}])]
  /\ UNCHANGED <<dbVars, sendVars, threadVars, ingestVars>>

\* supabase.from('notifications').insert({...}), then the redirect
ClickNotify(c) ==
  /\ click[c].pc = "notify"
  /\ \E o \in {"ok", "error", "throw"} :
       /\ notifications' =
            IF o = "ok"
            THEN Append(notifications, [user_id |-> click[c].emailData.sent_by,
                                        email |-> click[c].id])
            ELSE notifications
       /\ click' = [click EXCEPT ![c] =
            Redirect(IF o = "ok" THEN click[c]
                     ELSE [click[c] EXCEPT !.failed = @ \cup {"notify"}])]
  /\ UNCHANGED <<dbVars, sendVars, threadVars, email_replies, inbox, job, contacts>>

\* the tables the handler finds: one message, clicked before or not, with or
\* without a contact and a sending user; one contact
InitClick ==
  /\ \E clicks \in {0, 2}, contact \in {NoId, 1}, user \in {NoId, 1} :
       email_history = <<[id |-> 1, click_count |-> clicks,
                          clicked_at |-> IF clicks = 0 THEN 0 ELSE 1,
                          contact_id |-> contact, sent_by |-> user]>>
  /\ \E score \in {0, 95} :
       contacts = <<[id |-> 1, email_clicks |-> 0, engagement_score |-> score]>>
  /\ click = [c \in ClickHandlers |-> NoClick]
  /\ pending_bounce_checks = {}
  /\ sentItems = <<>>
  /\ InitSendIdle
  /\ InitViewEmpty
  /\ InitIngestIdle

\* a request with any id and any url value of up to MaxUrlLen characters, or
\* a click on a link of message 1 as rewriteLinksForTracking rewrote it:
\* ...track-email-click?id=${emailHistoryId}&url=${encodedUrl}
NextClick ==
  \/ \E id \in {NoId, 1, BogusId},
        url \in UNION {[1..n -> {"x", "%", "2", "5"}] : n \in 0..MaxUrlLen} :
       ClickReceive(1, id, url)
  \/ \E u \in LinkUrls : ClickReceive(1, 1, EncodeURIComponent(u))
  \/ ClickFetch(1)
  \/ ClickUpdate(1)
  \/ ClickContactRead(1)
  \/ ClickContactUpdate(1)
  \/ ClickNotify(1)

SpecClick == InitClick /\ [][NextClick]_vars

\* two requests for links of message 1 at once: each await of one handler
\* may be followed by steps of the other
NextTwoClicks ==
  \E c \in ClickHandlers :
    \/ ClickReceive(c, 1, <<"x">>)
    \/ ClickFetch(c)
    \/ ClickUpdate(c)
    \/ ClickContactRead(c)
    \/ ClickContactUpdate(c)
    \/ ClickNotify(c)

SpecTwoClicks == InitClick /\ [][NextTwoClicks]_vars

(***************************************************************************)
(* Claims about the click tracking redirect, checked under SpecClick.      *)
(***************************************************************************)
\* C11: a request that carries a url value is answered with a redirect
\* (status 302) whose Location is the decoded value, whatever happened to
\* the tracking.
C11_AlwaysRedirects ==
  (click[1].pc = "done" /\ click[1].url # <<>>)
    => /\ click[1].status = 302
       /\ click[1].location = PercentDecode(click[1].targetUrl)

\* a request with a url value has been answered without a redirect
C11_Witness ==
  /\ click[1].pc = "done"
  /\ click[1].url # <<>>
  /\ click[1].id = 1
  /\ click[1].status = 500

\* the part of C11 about tracking: once the url value has been decoded, the
\* answer is the redirect to it, whichever tracking operations failed
C11_TrackingNeverBlocks ==
  (click[1].pc = "done" /\ click[1].targetUrl # <<>> /\ ~URIMalformed(click[1].targetUrl))
    => /\ click[1].status = 302
       /\ click[1].location = PercentDecode(click[1].targetUrl)

C11_TrackingFailed ==
  /\ click[1].pc = "done"
  /\ click[1].status = 302
  /\ click[1].failed = {"update", "contact", "notify"}

\* C28: a click on the rewritten form of a link URL u, every % of which
\* starts a percent escape, is answered with a redirect to exactly u.
C28_LinkRoundTrip ==
  \A u \in LinkUrls :
    (~URIMalformed(u) /\ click[1].pc = "done" /\ click[1].url = EncodeURIComponent(u))
      => (click[1].status = 302 /\ click[1].location = u)

\* a click on the rewritten form of a link whose URL holds a percent escape
\* has been tracked and answered with a redirect to another URL
C28_Witness ==
  \E u \in LinkUrls :
    /\ ~URIMalformed(u)
    /\ click[1].pc = "done"
    /\ click[1].id = 1
    /\ click[1].failed = {}
    /\ click[1].url = EncodeURIComponent(u)
    /\ click[1].status = 302
    /\ click[1].location # u

(***************************************************************************)
(* Claims about concurrent clicks, checked under SpecTwoClicks.            *)
(***************************************************************************)
\* the handlers whose update of the click count succeeded
TrackedClicks ==
  {c \in ClickHandlers :
     /\ click[c].pc \in {"contact", "contactUpdate", "notify", "done"}
     /\ click[c].emailData.id # NoId
     /\ click[c].failed \cap {"fetch", "update"} = {}}

\* the click count before the requests: what the first fetch read
ClicksBefore ==
  LET read == {click[c].emailData.click_count :
                 c \in {k \in ClickHandlers : click[k].emailData.id # NoId}}
  IN CHOOSE n \in read : \A m \in read : n <= m

\* C29: when the requests have been answered, click_count has grown by the
\* number of tracked clicks, and the first-click effects have happened at
\* most once: one notification, the contact's email_clicks raised by one and
\* its engagement_score by at most 10, never above 100.
C29_FirstClickOnce ==
  ((\A c \in ClickHandlers : click[c].pc \in {"idle", "done"}) /\ TrackedClicks # {})
    => /\ email_history[1].click_count = ClicksBefore + Cardinality(TrackedClicks)
       /\ Len(notifications) <= 1
       /\ contacts[1].email_clicks <= 1
       /\ contacts[1].engagement_score \in {0, 10, 95, 100}

\* two clicks on a message never clicked before have been handled without
\* any failure: click_count is 1, the contact's email_clicks is 2 and two
\* notifications exist
C29_Witness ==
  /\ \A c \in ClickHandlers : click[c].pc = "done" /\ click[c].failed = {}
  /\ \A c \in ClickHandlers : click[c].status = 302 /\ click[c].isFirstClick
  /\ email_history[1].click_count = 1
  /\ contacts[1].email_clicks = 2
  /\ Len(notifications) = 2

(***************************************************************************)
(* Claims about the grouping of the thread assembly, under SpecThreads.    *)
(***************************************************************************)
\* the places <<thread, position>> of the produced threads that show an event
\* of this type with this id
Places(type, id) ==
  {p \in {<<t, a>> : t \in 1..Len(threads), a \in 1..(MaxThreadEmails * 2)} :
     /\ p[2] <= Len(threads[p[1]].messages)
     /\ threads[p[1]].messages[p[2]].type = type
     /\ threads[p[1]].messages[p[2]].id = id}

\* C22: every Message record is a sent event of exactly one thread, the one
\* keyed by its thread_id, or by its id when thread_id is null; every Reply
\* record is shown only in the thread of its originating Message; a root and
\* a reply whose thread_id is the root's id are in the same thread.
C22_GroupingPartitions ==
  rendered =>
    /\ \A i \in 1..Len(emails) :
         /\ Cardinality(Places("sent", emails[i].id)) = 1
         /\ \A p \in Places("sent", emails[i].id) :
              threads[p[1]].threadId =
                IF emails[i].thread_id = NoId THEN emails[i].id ELSE emails[i].thread_id
    /\ \A i \in DOMAIN repliesMap : \A r \in 1..Len(repliesMap[i]) :
         /\ Cardinality(Places("received", repliesMap[i][r].id)) = 1
         /\ \A p \in Places("received", repliesMap[i][r].id) :
              \E q \in Places("sent", repliesMap[i][r].email_history_id) : q[1] = p[1]
    /\ \A i, k \in 1..Len(emails) :
         (emails[i].thread_id = NoId /\ emails[k].thread_id = emails[i].id)
           => \E p \in Places("sent", emails[i].id), q \in Places("sent", emails[k].id) :
                p[1] = q[1]

\* a root with a null thread_id, a follow-up whose thread_id is the root's
\* id and a reply received to the follow-up have been assembled into one
\* thread, next to nothing else
C22_Witness ==
  /\ rendered
  /\ Len(threads) = 1
  /\ \E i, k \in 1..Len(emails) :
       /\ emails[i].thread_id = NoId
       /\ emails[k].thread_id = emails[i].id
       /\ i # k
       /\ RepliesOf(repliesMap, emails[k].id) # <<>>
       /\ Len(threads[1].messages) = 3
(***************************************************************************)
(* Claims about two invocations of the send handler, under SpecTwoSends.   *)
(***************************************************************************)
\* C26: two distinct Message records never hold the same non-null provider
\* message id.
C26_DistinctProviderIds ==
  \A a, b \in 1..Len(email_history) :
    (a # b /\ email_history[a].message_id # NoMsg)
      => email_history[a].message_id # email_history[b].message_id

\* both invocations have dispatched a new message to the same recipient, both
\* messages are in the recency window, both invocations have returned
\* success, and the two Message records hold the same provider message id
C26_Witness ==
  /\ \A h \in Handlers : pc[h] = "done" /\ resp[h].status = 200 /\ ~req[h].isReply
  /\ Len(sentItems) = 2
  /\ \A i \in 1..Len(sentItems) : sentItems[i].state = "fresh"
  /\ Len(email_history) = 2
  /\ email_history[1].message_id # NoMsg
  /\ email_history[1].message_id = email_history[2].message_id
(***************************************************************************)
(* Claims about the send handler and the open tracking, under SpecSendOpen.*)
(***************************************************************************)
\* C27: the final update of an invocation leaves the status of its Message
\* record unchanged when that status is opened, bounced or replied.
C27_FinalUpdateKeepsAdvancedStatus ==
  [][\A h \in Handlers :
       (/\ pc[h] = "finalUpdate"
        /\ pc'[h] # "finalUpdate"
        /\ email_history[loc[h].emailId].status \in {"opened", "bounced", "replied"})
         => email_history'[loc[h].emailId].status = email_history[loc[h].emailId].status]_vars

\* the invocation has returned success with the provider id captured, the
\* recipient opened the message while the invocation was still polling, and
\* the Message record is back at status sent
C27_Witness ==
  /\ pc[1] = "done"
  /\ resp[1].status = 200
  /\ loc[1].retries >= 2
  /\ "opened_at" \in DOMAIN email_history[loc[1].emailId]
  /\ email_history[loc[1].emailId].message_id # NoMsg
  /\ email_history[loc[1].emailId].status = "sent"
(***************************************************************************)
(* Claims about the list of the view, checked under SpecView.              *)
(***************************************************************************)
\* C30: the list of the view never holds two entries with the same id, and
\* no produced thread shows a Message record twice.
C30_NoDuplicateEntries ==
  /\ \A a, b \in 1..Len(emails) : a # b => emails[a].id # emails[b].id
  /\ rendered =>
       \A t \in 1..Len(threads) : \A a, b \in 1..Len(threads[t].messages) :
         (a # b /\ threads[t].messages[a].type = "sent")
           => threads[t].messages[a] # threads[t].messages[b]

\* with no query and no event in flight, the list holds a Message record
\* twice and the rendered thread shows it twice
C30_Witness ==
  /\ view = NoView
  /\ rendered
  /\ Len(emails) = 2
  /\ emails[1].id = emails[2].id
  /\ Len(threads) = 1
  /\ Len(threads[1].messages) = 2
  /\ threads[1].messages[1].id = threads[1].messages[2].id
====
